---- MODULE Spec2Model ----
(***************************************************************************)
(* IPv4 addressing engine of ipCalc-network (utils/ipUtils): conversions   *)
(* between dotted-decimal text, 32-bit words, prefix lengths and masks,    *)
(* and the derivation of the network facts of an (address, prefix) pair.   *)
(*                                                                         *)
(* Representation.                                                         *)
(*   text    a sequence of one-character strings, <<"1","0",".","0">>      *)
(*   word    a 32-bit value, a function from bit position 0..31 (0 is the  *)
(*           least significant bit) to 0..1; this is what the ECMAScript   *)
(*           bitwise operators work on after ToInt32 / ToUint32            *)
(*   number  a count that may leave the 32-bit range (2^32) or be a        *)
(*           fraction (2^-1): a record [m, e] standing for m * 2^e, with   *)
(*           m odd, or m = 0 and e = 0                                     *)
(***************************************************************************)
EXTENDS Integers, Sequences, FiniteSets, TLC

VARIABLES
    ip,      \* the address text handed to the engine
    cidr,    \* the prefix length handed to the engine
    value,   \* the 32-bit word handed to intToIp
    count,   \* the number of subnets asked of generateSubnets
    op,      \* the engine function that ran last, "idle" before any
    out,     \* what that function returned
    formIp,        \* IpForm: the address field
    formCidr,      \* IpForm: the prefix chosen in the select
    ipError,       \* IpForm: the message under the address field
    binaryIp,      \* IpForm: the binary form shown under the address field
    ipResult,      \* App: the displayed result, <<>> for null
    subnets,       \* App: the displayed subnet list
    currentIp,     \* App: the address of the displayed result
    currentCidr,   \* App: the prefix of the displayed result
    subnetCount,   \* SubnetGenerator: the count field
    error,         \* SubnetGenerator: the message under the count field
    cidrValue,     \* NetworkTools: the prefix field
    ipInfo,        \* NetworkTools: the network facts shown, <<>> for null
    isPinging,     \* NetworkTools: a ping is under way
    isScanning,    \* NetworkTools: a scan is under way
    ipScanError,   \* NetworkTools: the message of the scan panel
    calls,         \* the calls of calculateIPInfo and generateSubnets that
                   \* the last event made, in order
    pingResult,    \* NetworkTools: the result shown, <<>> for null
    pingHistory,   \* NetworkTools: the ping history, newest entry first
    pingsMade,     \* the pings completed so far: the clock of pingHistory
    isCheckingPorts, \* NetworkTools: a port check is under way
    selectedPorts, \* NetworkTools: the ports chosen for the check
    customPort,    \* NetworkTools: the custom port field, <<n>> for the
                   \* number n, <<>> for ''
    portResults,   \* NetworkTools: the port results shown
    portError,     \* NetworkTools: the message of the port panel
    portHistory,   \* NetworkTools: the port check history, newest first
    checksMade,    \* the port checks completed so far: the clock of
                   \* portHistory
    startIp,       \* NetworkTools: the start field of the IP sweep
    endIp,         \* NetworkTools: the end field of the IP sweep
    scanResults,   \* NetworkTools: the results of the last sweep
    pinging,       \* the addresses of the calls of pingHost that
                   \* handlePing awaits
    checking,      \* the arguments of the calls of checkMultiplePorts that
                   \* handleCheckPorts awaits
    scan           \* the calls of scanIpRange under way, each with its
                   \* address list and its progress

engineVars == <<ip, cidr, value, count, op, out>>

pingVars == <<pingResult, pingHistory, pingsMade, pinging>>

portVars == <<isCheckingPorts, selectedPorts, customPort, portResults,
              portError, portHistory, checksMade, checking>>

sweepVars == <<endIp, scanResults, scan>>

toolVars == <<startIp, pingVars, portVars, sweepVars>>

uiVars == <<formIp, formCidr, ipError, binaryIp, ipResult, subnets, currentIp,
            currentCidr, subnetCount, error, cidrValue, ipInfo, isPinging,
            isScanning, ipScanError, calls, toolVars>>

vars == <<engineVars, uiVars>>

----------------------------------------------------------------------------
(* Text *)

Digits == <<"0", "1", "2", "3", "4", "5", "6", "7", "8", "9">>

IsDigit(c) == \E i \in 1..10 : Digits[i] = c

DigitVal(c) == (CHOOSE i \in 1..10 : Digits[i] = c) - 1

InRange(c, lo, hi) == IsDigit(c) /\ DigitVal(c) >= lo /\ DigitVal(c) <= hi

\* String.prototype.split('.'): the pieces between the dots, empty ones kept
RECURSIVE Split(_)
Split(s) ==
    IF \A i \in 1..Len(s) : s[i] # "."
    THEN <<s>>
    ELSE LET d == CHOOSE i \in 1..Len(s) :
                      s[i] = "." /\ \A j \in 1..(i - 1) : s[j] # "."
         IN  <<SubSeq(s, 1, d - 1)>> \o Split(SubSeq(s, d + 1, Len(s)))

\* Array.prototype.join(sep)
RECURSIVE Join(_, _)
Join(parts, sep) ==
    IF Len(parts) = 0 THEN <<>>
    ELSE IF Len(parts) = 1 THEN parts[1]
    ELSE parts[1] \o sep \o Join(Tail(parts), sep)

\* Number.prototype.toString(radix) of a non-negative integer
RECURSIVE NatText(_, _)
NatText(n, radix) ==
    IF n < radix THEN <<Digits[n + 1]>>
    ELSE NatText(n \div radix, radix) \o <<Digits[(n % radix) + 1]>>

\* the value of a run of decimal digits
RECURSIVE DigitsValue(_)
DigitsValue(ds) ==
    IF Len(ds) = 0 THEN 0
    ELSE 10 * DigitsValue(SubSeq(ds, 1, Len(ds) - 1)) + DigitVal(ds[Len(ds)])

\* the longest prefix of s made of decimal digits
RECURSIVE DigitPrefix(_)
DigitPrefix(s) ==
    IF Len(s) = 0 \/ ~IsDigit(s[1]) THEN <<>>
    ELSE <<s[1]>> \o DigitPrefix(Tail(s))

\* the white space and the line terminators of ECMAScript, which parseInt
\* skips at the start of its text (StrWhiteSpaceChar): TAB, LF, VT, FF, CR,
\* SP, NBSP, the space separators of Unicode, LS, PS and the byte order
\* mark.  A character outside ASCII or without an escape of its own stands
\* as the name of its code point.
WhiteSpace ==
    { "\t", "\n", "U+000B", "\f", "\r", " ", "U+00A0", "U+1680", "U+2000",
      "U+2001", "U+2002", "U+2003", "U+2004", "U+2005", "U+2006", "U+2007",
      "U+2008", "U+2009", "U+200A", "U+2028", "U+2029", "U+202F", "U+205F",
      "U+3000", "U+FEFF" }

\* s without the white space it starts with
RECURSIVE TrimStart(_)
TrimStart(s) ==
    IF Len(s) > 0 /\ s[1] \in WhiteSpace THEN TrimStart(Tail(s)) ELSE s

NaN == [nan |-> TRUE, n |-> 0]

\* parseInt(s, 10): leading white space skipped, an optional sign, then the
\* longest run of digits; NaN when there is none.  s = "undefined" stands for
\* a missing array element (parseInt(undefined, 10) is NaN as well).
parseInt(s) ==
    LET t    == TrimStart(s)
        neg  == Len(t) > 0 /\ t[1] = "-"
        body == IF Len(t) > 0 /\ t[1] \in {"-", "+"} THEN Tail(t) ELSE t
        ds   == DigitPrefix(body)
    IN  IF Len(ds) = 0 THEN NaN
        ELSE [nan |-> FALSE,
              n   |-> IF neg THEN 0 - DigitsValue(ds) ELSE DigitsValue(ds)]

\* parts[k] of an array: undefined past its end
Part(parts, k) ==
    IF k <= Len(parts) THEN parts[k]
    ELSE <<"u", "n", "d", "e", "f", "i", "n", "e", "d">>

----------------------------------------------------------------------------
(* 32-bit words *)

Bits == 0..31

ZeroWord == [i \in Bits |-> 0]

\* ToInt32 / ToUint32 of an integer in -2^31 .. 2^31 - 1, two's complement
ToWord(n) ==
    [i \in Bits |->
        IF n >= 0
        THEN IF i = 31 THEN 0 ELSE (n \div (2 ^ i)) % 2
        ELSE IF i = 31 THEN 1 ELSE (((n + 2147483647) + 1) \div (2 ^ i)) % 2]

\* ToInt32 of the result of parseInt: NaN becomes 0
NumToWord(p) == IF p.nan THEN ZeroWord ELSE ToWord(p.n)

\* a << k and a >>> k: the shift count is taken modulo 32
Shl(a, k) == LET s == k % 32 IN [i \in Bits |-> IF i >= s THEN a[i - s] ELSE 0]

Shr(a, k) == LET s == k % 32 IN [i \in Bits |-> IF i + s <= 31 THEN a[i + s] ELSE 0]

Not(a) == [i \in Bits |-> 1 - a[i]]

And(a, b) == [i \in Bits |-> a[i] * b[i]]

Or(a, b) == [i \in Bits |-> IF a[i] + b[i] > 0 THEN 1 ELSE 0]

\* the carry into bit i of a + b: some bit j below i makes a carry (both
\* bits 1) and every bit between j and i passes it on (at least one bit 1);
\* makes holds the bits that make a carry
Carry(a, b, makes, i) ==
    IF \E j \in makes :
           /\ j < i
           /\ \A k \in (j + 1)..(i - 1) : a[k] + b[k] >= 1
    THEN 1 ELSE 0

\* the word w itself; the comparison has its 32 bits worked out once, so that
\* a word built from other words is not worked out again at every use
Fixed(w) == IF w = ZeroWord THEN ZeroWord ELSE w

\* r itself, once v has its value: the statements of a function run in the
\* order they are written, each "const v = ..." before what follows it
After(v, r) == IF v = v THEN r ELSE r

\* the list s itself, with its elements worked out once
Listed(s) == IF s = <<>> THEN <<>> ELSE s

\* ToUint32(a + b): the sum modulo 2^32
Plus(a, b) ==
    LET x == Fixed(a)
        y == Fixed(b)
        makes == {j \in Bits : x[j] + y[j] = 2}
    IN  IF makes = {} THEN Fixed([i \in Bits |-> (x[i] + y[i]) % 2])
        ELSE Fixed([i \in Bits |-> (x[i] + y[i] + Carry(x, y, makes, i)) % 2])

\* the value of bits i..7 of a word below 256, bit i counting as 1
RECURSIVE ByteValue(_, _)
ByteValue(a, i) == IF i > 7 THEN 0 ELSE a[i] + 2 * ByteValue(a, i + 1)

----------------------------------------------------------------------------
(* Numbers outside the 32-bit range: m * 2^e *)

Normal(m, e) == IF m = 0 THEN [m |-> 0, e |-> 0] ELSE [m |-> m, e |-> e]

\* Math.pow(2, e)
Pow2(e) == [m |-> 1, e |-> e]

Double(x) == Normal(x.m, x.e + 1)

RECURSIVE Halved(_)
Halved(x) == IF x.m # 0 /\ x.m % 2 = 0
             THEN Halved([m |-> x.m \div 2, e |-> x.e + 1])
             ELSE Normal(x.m, x.e)

\* x > k, for an integer k >= 0
Greater(x, k) ==
    IF x.m = 0 THEN FALSE
    ELSE IF x.e >= 31 THEN TRUE
    ELSE IF x.e >= 0 THEN x.m > k \div (2 ^ x.e)
    ELSE x.m > k * (2 ^ (0 - x.e))

\* the largest z with 2^z dividing k, for 0 < k < 2^30
TrailingZeros(k) == CHOOSE z \in 0..29 : k % (2 ^ z) = 0 /\ k % (2 ^ (z + 1)) # 0

\* x - k, for an integer k >= 0: the power of two 2^z that x and k share is
\* taken out; what is left of k is odd when x keeps a factor 2^r, r > 0, and
\* the odd difference is then 2 * (m * 2^(r-1) - (k' + 1) / 2) + 1, which is
\* found without leaving the integers below 2^31
Minus(x, k) ==
    IF k = 0 THEN x
    ELSE IF x.e < 0 THEN Normal(x.m - k * (2 ^ (0 - x.e)), x.e)
    ELSE LET tz   == TrailingZeros(k)
             z    == IF x.e < tz THEN x.e ELSE tz
             r    == x.e - z
             rest == k \div (2 ^ z)
         IN  IF r = 0 THEN Halved([m |-> x.m - rest, e |-> z])
             ELSE [m |-> 2 * (x.m * (2 ^ (r - 1)) - (rest + 1) \div 2) + 1,
                   e |-> z]

----------------------------------------------------------------------------
(* Address/mask conversion layer *)

\* MatchOctet with the second alternative written 2[0-5][0-9], which lets
\* 256..259 through
MatchOctetLoose(s) ==
    \/ Len(s) = 3 /\ s[1] = "2" /\ s[2] = "5" /\ InRange(s[3], 0, 5)
    \/ Len(s) = 3 /\ s[1] = "2" /\ InRange(s[2], 0, 5) /\ IsDigit(s[3])
    \/ /\ Len(s) \in 1..3
       /\ \A i \in 1..Len(s) : IsDigit(s[i])
       /\ (Len(s) = 3 => s[1] \in {"0", "1"})

\* one alternative group of the pattern: 25[0-5] | 2[0-4][0-9] | [01]?[0-9][0-9]?
MatchOctet(s) ==
    \/ Len(s) = 3 /\ s[1] = "2" /\ s[2] = "5" /\ InRange(s[3], 0, 5)
    \/ Len(s) = 3 /\ s[1] = "2" /\ InRange(s[2], 0, 4) /\ IsDigit(s[3])
    \/ /\ Len(s) \in 1..3
       /\ \A i \in 1..Len(s) : IsDigit(s[i])
       /\ (Len(s) = 3 => s[1] \in {"0", "1"})

\* ^octet\.octet\.octet\.octet$ : no group matches a dot, so the text matches
\* exactly when its dots cut it into four pieces that each match a group
isValidIP(t) ==
    LET parts == Split(t)
    IN  Len(parts) = 4 /\ \A k \in 1..4 : MatchOctet(parts[k])

ipToInt(t) ==
    LET parts == Split(t)
    IN  Or(Or(Shl(NumToWord(parseInt(Part(parts, 1))), 24),
              Shl(NumToWord(parseInt(Part(parts, 2))), 16)),
           Or(Shl(NumToWord(parseInt(Part(parts, 3))), 8),
              NumToWord(parseInt(Part(parts, 4)))))

\* (w >>> shift) & 255, as a number
Octet(w, shift) == ByteValue(And(Shr(w, shift), ToWord(255)), 0)

\* the value of bits i..30 of a word below 2^31, bit i counting as 1
RECURSIVE WordValue(_, _)
WordValue(a, i) == IF i > 30 THEN 0 ELSE a[i] + 2 * WordValue(a, i + 1)

\* intToIp with "& 255" forgotten on the two middle octets
intToIpUnmasked(w) ==
    Join(<<NatText(Octet(w, 24), 10), NatText(WordValue(Shr(w, 16), 0), 10),
           NatText(WordValue(Shr(w, 8), 0), 10),
           NatText(ByteValue(And(w, ToWord(255)), 0), 10)>>,
         <<".">>)

\* intToIp with the top octet taken as (w >> 24), the sign-keeping shift and
\* no "& 255": a word with bit 31 set gives a negative first octet
intToIpSigned(w) ==
    Join(<<IF w[31] = 1 THEN <<"-">> \o NatText(256 - Octet(w, 24), 10)
                        ELSE NatText(Octet(w, 24), 10),
           NatText(Octet(w, 16), 10),
           NatText(Octet(w, 8), 10), NatText(ByteValue(And(w, ToWord(255)), 0), 10)>>,
         <<".">>)

intToIp(w) ==
    Join(<<NatText(Octet(w, 24), 10), NatText(Octet(w, 16), 10),
           NatText(Octet(w, 8), 10), NatText(ByteValue(And(w, ToWord(255)), 0), 10)>>,
         <<".">>)

cidrToSubnetMask(c) == intToIp(Not(Shr(ToWord(-1), c)))

\* the number of i in 0..31 with mask & (1 << (31 - i)) non-zero
subnetMaskToCidr(maskText) ==
    LET mask == ipToInt(maskText)
    IN  Cardinality({i \in Bits :
            \E b \in Bits : And(mask, Shl(ToWord(1), 31 - i))[b] # 0})

\* String.prototype.padStart(padding, '0')
RECURSIVE PadStart(_, _)
PadStart(t, padding) ==
    IF Len(t) >= padding THEN t ELSE PadStart(<<"0">> \o t, padding)

\* num.toString(2).padStart(padding, '0'), num being a result of parseInt
toBinary(num, padding) ==
    PadStart(IF num.nan THEN <<"N", "a", "N">>
             ELSE IF num.n < 0 THEN <<"-">> \o NatText(0 - num.n, 2)
             ELSE NatText(num.n, 2),
             padding)

ipToBinary(t) ==
    LET parts == Split(t)
    IN  Join([k \in 1..Len(parts) |-> toBinary(parseInt(parts[k]), 8)], <<" ">>)

----------------------------------------------------------------------------
(* Network derivation engine *)

calculateNetworkAddress(t, subnetMask) ==
    intToIp(And(ipToInt(t), ipToInt(subnetMask)))

calculateBroadcastAddress(t, subnetMask) ==
    LET maskInt    == ipToInt(subnetMask)
        networkInt == And(ipToInt(t), maskInt)
    IN  intToIp(Or(networkInt, Not(maskInt)))

calculateFirstHost(networkAddress) ==
    intToIp(Plus(ipToInt(networkAddress), ToWord(1)))

\* calculateLastHost with the "- 1" forgotten
calculateLastHostNoStep(broadcastAddress) ==
    intToIp(ipToInt(broadcastAddress))

calculateLastHost(broadcastAddress) ==
    intToIp(Plus(ipToInt(broadcastAddress), ToWord(-1)))

calculateWildcardMask(subnetMask) == intToIp(Not(ipToInt(subnetMask)))

\* Math.pow(2, 32 - cidr)
TotalHosts(c) == Pow2(32 - c)

\* UsableHosts without the guard: totalHosts - 2 whatever totalHosts is
UsableHostsUnguarded(totalHosts) == Minus(totalHosts, 2)

\* totalHosts > 2 ? totalHosts - 2 : 0
UsableHosts(totalHosts) ==
    IF Greater(totalHosts, 2) THEN Minus(totalHosts, 2) ELSE Normal(0, 0)

calculateIPInfo(t, c) ==
    LET subnetMask       == cidrToSubnetMask(c)
        networkAddress   == calculateNetworkAddress(t, subnetMask)
        broadcastAddress == calculateBroadcastAddress(t, subnetMask)
        totalHosts       == TotalHosts(c)
    IN  After(subnetMask, After(networkAddress, After(broadcastAddress,
        [networkAddress       |-> networkAddress,
         broadcastAddress     |-> broadcastAddress,
         firstValidHost       |-> calculateFirstHost(networkAddress),
         lastValidHost        |-> calculateLastHost(broadcastAddress),
         totalHosts           |-> totalHosts,
         usableHosts          |-> UsableHosts(totalHosts),
         cidr                 |-> c,
         subnetMask           |-> subnetMask,
         binarySubnetMask     |-> ipToBinary(subnetMask),
         binaryIpAddress      |-> ipToBinary(t),
         binaryNetworkAddress |-> ipToBinary(networkAddress),
         wildcardMask         |-> calculateWildcardMask(subnetMask),
         subnetBits           |-> c - (IF c <= 8 THEN 0
                                       ELSE IF c <= 16 THEN 8
                                       ELSE IF c <= 24 THEN 16 ELSE 24),
         hostBits             |-> 32 - c])))

----------------------------------------------------------------------------
(* Subnet generator *)

\* Math.ceil(Math.log2(n)) for an integer n >= 1: the least b with 2^b >= n
RECURSIVE CeilLog2From(_, _)
CeilLog2From(n, b) == IF 2 ^ b >= n THEN b ELSE CeilLog2From(n, b + 1)

CeilLog2(n) == CeilLog2From(n, 0)

\* Math.min(cidr + bitsNeeded, 29): the clamp set one prefix too low
NewCidrLow(c, n) ==
    LET wanted == c + CeilLog2(n)
    IN  IF wanted < 29 THEN wanted ELSE 29

\* Math.min(cidr + bitsNeeded, 30)
NewCidr(c, n) ==
    LET wanted == c + CeilLog2(n)
    IN  IF wanted < 30 THEN wanted ELSE 30

\* ToUint32(i * 2^e): the low 32 bits of i shifted up by e
Scaled(i, e) == IF e >= 32 THEN ZeroWord ELSE Shl(ToWord(i), e)

\* Rounds with "<=" in place of "<" in the loop test: one round more
RoundsInclusive(d, n) ==
    LET actual == IF d >= 0 THEN 2 ^ d ELSE 1
    IN  (IF actual < n THEN actual ELSE n) + 1

\* how many i = 0, 1, ... satisfy i < actualSubnetCount && i < subnetCount;
\* actualSubnetCount = 2^d is a fraction below 1 when d < 0, and 0 < 2^d holds
Rounds(d, n) ==
    LET actual == IF d >= 0 THEN 2 ^ d ELSE 1
    IN  IF actual < n THEN actual ELSE n

\* SubnetAt with subnetEnd = subnetStartInt + subnetSize, the "- 1" forgotten
SubnetAtLong(networkInt, newCidr, i) ==
    LET e     == 32 - newCidr
        start == Plus(networkInt, Scaled(i, e))
        next  == Plus(start, Scaled(1, e))
    IN  [id               |-> i + 1,
         networkAddress   |-> intToIp(start),
         broadcastAddress |-> intToIp(next),
         firstHost        |-> intToIp(Plus(start, ToWord(1))),
         lastHost         |-> intToIp(Plus(next, ToWord(-2))),
         cidr             |-> newCidr,
         usableHosts      |-> Minus(Pow2(e), 2)]

\* the body of the loop: the i-th subnet, subnetSize being 2^(32 - newCidr)
SubnetAt(networkInt, newCidr, i) ==
    LET e     == 32 - newCidr
        start == Plus(networkInt, Scaled(i, e))
        next  == Plus(start, Scaled(1, e))
    IN  [id               |-> i + 1,
         networkAddress   |-> intToIp(start),
         broadcastAddress |-> intToIp(Plus(next, ToWord(-1))),
         firstHost        |-> intToIp(Plus(start, ToWord(1))),
         lastHost         |-> intToIp(Plus(next, ToWord(-2))),
         cidr             |-> newCidr,
         usableHosts      |-> Minus(Pow2(e), 2)]

\* generateSubnets(ip, cidr, subnetCount) for an integer subnetCount >= 0.
\* Math.log2(0) is -Infinity, which makes actualSubnetCount 0: the loop does
\* not run and the list is empty.
generateSubnets(t, c, n) ==
    IF n = 0 THEN <<>>
    ELSE LET newCidr        == NewCidr(c, n)
             subnetMask     == cidrToSubnetMask(c)
             networkAddress == calculateNetworkAddress(t, subnetMask)
             networkInt     == ipToInt(networkAddress)
         IN  After(subnetMask, After(networkAddress, After(networkInt,
             [k \in 1..Rounds(newCidr - c, n) |->
                  SubnetAt(networkInt, newCidr, k - 1)])))

----------------------------------------------------------------------------
(* The inputs the engine is exercised on *)

MaxSegments == 5     \* texts have 1..MaxSegments dot-separated pieces
MaxPrefix == 33      \* prefixes 0..MaxPrefix are tried; 32 is the last valid one

\* pieces a text may hold: octets with and without leading zeros, values
\* around 255, empty, non-numeric, signed pieces and pieces with white space
\* (a space, a tab, a no-break space) before or after the digits
Pieces ==
    { <<>>,
      <<"0">>,
      <<"7">>,
      <<"0", "0">>,
      <<"0", "7">>,
      <<"9", "9">>,
      <<"0", "0", "0">>,
      <<"0", "0", "7">>,
      <<"0", "1", "0">>,
      <<"1", "9", "9">>,
      <<"2", "4", "9">>,
      <<"2", "5", "0">>,
      <<"2", "5", "5">>,
      <<"2", "5", "6">>,
      <<"2", "6", "0">>,
      <<"2", "9", "9">>,
      <<"3", "0", "0">>,
      <<"0", "0", "0", "1">>,
      <<"1", "0", "0", "0">>,
      <<"a">>,
      <<"1", "a">>,
      <<" ", "1">>,
      <<"\t", "1">>,
      <<"U+00A0", "1">>,
      <<"1", " ">>,
      <<"-", "1">>,
      <<"+", "1">> }

\* the pieces around the one that varies
PlainPieces ==
    { <<"1", "0">> }

\* every text of up to MaxSegments pieces, one of them any of Pieces
Texts ==
    { Join([f EXCEPT ![k] = r], <<".">>) :
        <<f, k, r>> \in UNION { [1..n -> PlainPieces] \X (1..n) \X Pieces :
                                 n \in 1..MaxSegments } }

\* octet values that put a 0 and a 1 at every bit position a mask can cut:
\* 01010101, 10101010, 11111111
OctetValues == {85, 170, 255}

\* the canonical text of four octet values
Quad(a, b, c, d) ==
    Join(<<NatText(a, 10), NatText(b, 10), NatText(c, 10), NatText(d, 10)>>, <<".">>)

Addresses == { Quad(a, b, c, d) : a \in OctetValues, b \in OctetValues,
                                  c \in OctetValues, d \in OctetValues }

\* the addresses the documentation uses, and one written with leading zeros
DocAddresses ==
    { <<"1", "0", ".", "0", ".", "0", ".", "5">>,
      <<"1", "0", ".", "0", ".", "0", ".", "1">>,
      <<"1", "9", "2", ".", "1", "6", "8", ".", "1", ".", "1", "0">>,
      <<"1", ".", "1", ".", "1", ".", "1">>,
      <<"1", "9", "2", ".", "1", "6", "8", ".", "0", "0", "1", ".", "0", "1", "0">>,
      <<"0", ".", "0", ".", "0", ".", "0">>,
      <<"2", "5", "5", ".", "2", "5", "5", ".", "2", "5", "5", ".", "2", "5", "5">> }

\* texts isValidIP rejects
BadAddresses ==
    { <<"2", "5", "6", ".", "1", ".", "1", ".", "1">>,
      <<"1", ".", "1", ".", "1">>,
      <<"1", ".", "1", ".", "1", ".", "1", ".", "1">>,
      <<>>,
      <<"a", ".", "b", ".", "c", ".", "d">>,
      <<"1", ".", "1", ".", "1", ".", "1", " ">> }

\* the word with the four given octets, most significant first
WordOf(a, b, c, d) ==
    Or(Or(Shl(ToWord(a), 24), Shl(ToWord(b), 16)), Or(Shl(ToWord(c), 8), ToWord(d)))

WordOctets == {0, 1, 127, 128, 255}

Words == { WordOf(a, b, c, d) : a \in WordOctets, b \in WordOctets,
                                c \in WordOctets, d \in WordOctets }

DefaultIp == <<"0", ".", "0", ".", "0", ".", "0">>

NoResult == [error |-> "none"]

DefaultPorts == <<80, 443>>

\* the presentation layer as its components are constructed: IpForm with an
\* empty field and /24, App with nothing displayed, SubnetGenerator with "2"
\* in its field, NetworkTools with /24, ports 80 and 443 chosen, empty
\* histories and nothing under way
InitUi ==
    /\ formIp = <<>>
    /\ formCidr = 24
    /\ ipError = ""
    /\ binaryIp = <<>>
    /\ ipResult = <<>>
    /\ subnets = <<>>
    /\ currentIp = <<>>
    /\ currentCidr = 24
    /\ subnetCount = <<"2">>
    /\ error = ""
    /\ cidrValue = 24
    /\ ipInfo = <<>>
    /\ isPinging = FALSE
    /\ isScanning = FALSE
    /\ ipScanError = ""
    /\ calls = <<>>
    /\ pingResult = <<>>
    /\ pingHistory = <<>>
    /\ pingsMade = 0
    /\ isCheckingPorts = FALSE
    /\ selectedPorts = DefaultPorts
    /\ customPort = <<>>
    /\ portResults = <<>>
    /\ portError = ""
    /\ portHistory = <<>>
    /\ checksMade = 0
    /\ startIp = <<>>
    /\ endIp = <<>>
    /\ scanResults = <<>>
    /\ pinging = <<>>
    /\ checking = <<>>
    /\ scan = <<>>

----------------------------------------------------------------------------
(* The engine as a state machine: an input is chosen, then one function of *)
(* the engine runs on it and its result is kept in out.  No function of    *)
(* the engine throws or keeps state; error is "none" after every call.     *)

Init ==
    /\ op = "idle"
    /\ out = NoResult
    /\ count = 2
    /\ InitUi
    /\ \/ ip \in Texts /\ cidr = 24 /\ value = ZeroWord
       \/ ip = DefaultIp /\ cidr = 24 /\ value \in Words
       \/ /\ ip \in Addresses \cup DocAddresses \cup BadAddresses
          /\ cidr \in 0..MaxPrefix
          /\ value = ZeroWord

\* isValidIP(ip)
Validate ==
    /\ op = "idle"
    /\ op' = "isValidIP"
    /\ out' = [error |-> "none", valid |-> isValidIP(ip)]
    /\ UNCHANGED <<ip, cidr, value, count, uiVars>>

\* intToIp(ipToInt(ip))
ConvertText ==
    /\ op = "idle"
    /\ op' = "ipToInt"
    /\ out' = [error |-> "none", int |-> ipToInt(ip), back |-> intToIp(ipToInt(ip))]
    /\ UNCHANGED <<ip, cidr, value, count, uiVars>>

\* ipToInt(intToIp(value))
ConvertWord ==
    /\ op = "idle"
    /\ op' = "intToIp"
    /\ out' = [error |-> "none", text |-> intToIp(value),
               back |-> ipToInt(intToIp(value))]
    /\ UNCHANGED <<ip, cidr, value, count, uiVars>>

\* subnetMaskToCidr(cidrToSubnetMask(cidr))
ConvertPrefix ==
    /\ op = "idle"
    /\ op' = "cidrToSubnetMask"
    /\ out' = [error |-> "none", mask |-> cidrToSubnetMask(cidr),
               back |-> subnetMaskToCidr(cidrToSubnetMask(cidr))]
    /\ UNCHANGED <<ip, cidr, value, count, uiVars>>

\* calculateIPInfo(ip, cidr)
Calculate ==
    /\ op = "idle"
    /\ op' = "calculateIPInfo"
    /\ out' = [error |-> "none", info |-> calculateIPInfo(ip, cidr)]
    /\ UNCHANGED <<ip, cidr, value, count, uiVars>>

Next == Validate \/ ConvertText \/ ConvertWord \/ ConvertPrefix \/ Calculate

Spec == Init /\ [][Next]_vars

----------------------------------------------------------------------------
(* The subnet generator, with the functions it is compared with *)

MaxCount == 9        \* subnet counts 0..MaxCount are tried on every input

\* the limit SubnetGenerator puts on the count it hands over
MaxSubnets == 1024

\* parents to divide: the documented 192.168.0.0, addresses with the top bit
\* set, the two ends of the address space, and a text isValidIP rejects
Parents ==
    { <<"1", "9", "2", ".", "1", "6", "8", ".", "0", ".", "0">>,
      <<"1", "9", "2", ".", "1", "6", "8", ".", "1", ".", "1", "0">>,
      <<"1", "0", ".", "0", ".", "0", ".", "5">>,
      <<"1", "2", "8", ".", "0", ".", "0", ".", "0">>,
      <<"1", "7", "0", ".", "8", "5", ".", "1", "7", "0", ".", "8", "5">>,
      <<"0", ".", "0", ".", "0", ".", "0">>,
      <<"2", "5", "5", ".", "2", "5", "5", ".", "2", "5", "5", ".", "2", "5", "5">>,
      <<"2", "5", "6", ".", "1", ".", "1", ".", "1">> }

InitSubnets ==
    /\ op = "idle"
    /\ out = NoResult
    /\ value = ZeroWord
    /\ InitUi
    /\ \/ /\ ip \in Parents
          /\ cidr \in 0..MaxPrefix
          /\ count \in 0..MaxCount
       \/ /\ ip = <<"1", "0", ".", "0", ".", "0", ".", "5">>
          /\ cidr \in {8, 24}
          /\ count \in {MaxSubnets, MaxSubnets + 1}

\* generateSubnets(ip, cidr, count)
Generate ==
    /\ op = "idle"
    /\ op' = "generateSubnets"
    /\ out' = [error |-> "none", subnets |-> generateSubnets(ip, cidr, count)]
    /\ UNCHANGED <<ip, cidr, value, count, uiVars>>

NextSubnets == Generate \/ Calculate \/ ConvertText

SpecSubnets == InitSubnets /\ [][NextSubnets]_vars

----------------------------------------------------------------------------
(* Network utilities: the address lists of the scans *)

\* a < b, both words read as unsigned 32-bit values
Below(a, b) ==
    \E i \in Bits : a[i] < b[i] /\ \A j \in (i + 1)..31 : a[j] = b[j]

\* a < b, both words read as signed 32-bit values, which is what the results
\* of "&" and "|" are
SignedBelow(a, b) ==
    \/ a[31] = 1 /\ b[31] = 0
    \/ a[31] = b[31] /\ Below(a, b)

\* networkInt + k < broadcastInt for the numbers behind two signed words and
\* k >= 1: the sum is a number, it does not wrap, and past 2^31 - 1 it is
\* above every signed word
StepBelow(networkInt, k, broadcastInt) ==
    LET i == Plus(networkInt, ToWord(k))
    IN  /\ ~(networkInt[31] = 0 /\ i[31] = 1)
        /\ SignedBelow(i, broadcastInt)

\* the rounds of "for (i = networkInt + 1; i < broadcastInt && ips.length <
\* limit; i++)": the test fails for good the first time it fails
IpRounds(networkInt, broadcastInt, limit) ==
    LET failing == {k \in 1..limit : ~StepBelow(networkInt, k, broadcastInt)}
    IN  IF failing = {} THEN limit
        ELSE (CHOOSE k \in failing : \A j \in failing : k <= j) - 1

\* generateIpsInSubnet(networkIp, cidr, limit); "~(0xffffffff >>> cidr) >>> 0"
\* is an unsigned word, "ipInt & mask" and "networkInt | (~mask >>> 0)" are
\* signed ones
generateIpsInSubnet(t, c, limit) ==
    LET mask         == Fixed(Not(Shr(ToWord(-1), c)))
        ipInt        == Fixed(ipToInt(t))
        networkInt   == Fixed(And(ipInt, mask))
        broadcastInt == Fixed(Or(networkInt, Not(mask)))
    IN  [k \in 1..IpRounds(networkInt, broadcastInt, limit) |->
            intToIp(Plus(networkInt, ToWord(k)))]

\* endIpInt - startIpInt for startIpInt <= endIpInt, a number below 2^31
Distance(a, b) == WordValue(Plus(b, Plus(Not(a), ToWord(1))), 0)

\* calculateIpRange(startIp, endIp), for ranges of fewer than 2^31 addresses
calculateIpRange(first, last) ==
    LET startIpInt == Fixed(ipToInt(first))
        endIpInt   == Fixed(ipToInt(last))
    IN  IF Below(endIpInt, startIpInt) THEN <<>>
        ELSE [k \in 1..(Distance(startIpInt, endIpInt) + 1) |->
                 intToIp(Plus(startIpInt, ToWord(k - 1)))]

MaxLimit == 3        \* limits 0..MaxLimit are tried on every input

\* the limit handleScanSubnet passes
ScanLimit == 50

InitIps ==
    /\ op = "idle"
    /\ out = NoResult
    /\ value = ZeroWord
    /\ InitUi
    /\ \/ /\ ip \in Parents
          /\ cidr \in 0..MaxPrefix
          /\ count \in 0..MaxLimit
       \/ /\ ip \in Parents
          /\ cidr \in {0, 1, 24, 26, 27, 32}
          /\ count = ScanLimit

\* generateIpsInSubnet(ip, cidr, count)
Enumerate ==
    /\ op = "idle"
    /\ op' = "generateIpsInSubnet"
    /\ out' = [error |-> "none", ips |-> generateIpsInSubnet(ip, cidr, count)]
    /\ UNCHANGED <<ip, cidr, value, count, uiVars>>

NextIps == Enumerate \/ Calculate

SpecIps == InitIps /\ [][NextIps]_vars

----------------------------------------------------------------------------
(* The presentation layer: IpForm, App, SubnetGenerator and NetworkTools.  *)
(* One action per event; the state updates a handler queues and the        *)
(* effects React runs after them are part of the action.  Texts of         *)
(* messages stand as their translation keys.  Of NetworkTools the spec     *)
(* keeps the prefix field, the displayed facts, the ping, port and sweep   *)
(* panels with their busy flags, messages, results and histories; the      *)
(* selected tab and the notifications are left out.  A handler that awaits *)
(* is one action up to its await and one from there on; whether a ping is  *)
(* answered and which ports a check finds open is decided when the call    *)
(* resolves, and every call may end either way.  Of a result of pingHost   *)
(* the spec keeps the address and the status, of a result of checkPort     *)
(* the address, the port and the status; of an entry of the port history   *)
(* it keeps the address, the time and the ports that were checked.  A scan *)
(* is followed in two ways: ping by ping, as scanIpRange goes through its  *)
(* batches, or as the one call its handler awaits, and then of each result *)
(* the address is kept.                                                    *)

\* what the user types in the address field of IpForm
FieldTexts ==
    { <<>>,
      Quad(200, 1, 1, 1),
      <<"2", "5", "6", ".", "1", ".", "1", ".", "1">> }

\* the prefixes of the select of IpForm: Array.from({ length: 31 }, i + 1)
CidrOptions == 1..31

\* the ones that get chosen
CidrChoices == {31}

\* what the user types in the count field of SubnetGenerator: nothing,
\* counts at both ends of 2..1024 and next to them, a fraction, a count with
\* a letter after it, a count with a tab before it
CountTexts ==
    { <<>>, <<"1">>, <<"2">>, <<"2", ".", "5">>, <<"3", "x">>, <<"\t", "3">>,
      <<"1", "0", "2", "4">>, <<"1", "0", "2", "5">> }

\* what the user types in the prefix field of NetworkTools
ToolCidrTexts == { <<"0">>, <<"3", "2">>, <<"3", "3">> }

\* the address that is submitted before the network tools are used
ToolFieldTexts == { Quad(200, 1, 1, 1) }

\* what the user types in the start and the end field of the IP sweep: with
\* 200.1.1.1 as start, ranges of 1, 7 and 51 addresses; with 200.1.1.45,
\* an end below the start and a range of 7 addresses
StartTexts ==
    { <<>>, Quad(200, 1, 1, 1), Quad(200, 1, 1, 45),
      <<"2", "5", "6", ".", "1", ".", "1", ".", "1">> }

EndTexts ==
    { <<>>, Quad(200, 1, 1, 1), Quad(200, 1, 1, 7), Quad(200, 1, 1, 51),
      <<"2", "0", "0", ".", "1", ".", "1">> }

\* start and end texts where every operation is followed to its end: a
\* start that isValidIP refuses; with the start 200.1.1.1 of the mounted
\* tools, an end below the start and a range of 51 addresses.  A subnet
\* scan leaves the range 200.1.1.1 to 200.1.1.50 in the two fields.
LiveStartTexts == { <<"2", "5", "6", ".", "1", ".", "1", ".", "1">> }

LiveEndTexts == { Quad(200, 1, 1, 0), Quad(200, 1, 1, 51) }

\* the end texts of the scans where every ping may fail: with 200.1.1.1 as
\* start, one address, and seven, a batch of five and a batch of two
ScanEndTexts == { Quad(200, 1, 1, 1), Quad(200, 1, 1, 7) }

\* the lists the select of the common ports hands over in the port panel:
\* no port, and port 443 alone
PortLists == { <<>>, <<443>> }

\* the numbers typed in the custom port field: port 80, which may be chosen
\* already, and the numbers below and above the ports 1..65535
CustomPorts == { 0, 80, 65536 }

\* f itself, with its values worked out once
Worked(f) == IF f = f THEN f ELSE f

\* The functions of the engine and of the network utilities keep no state:
\* what they return for the arguments the presentation layer hands them in
\* the behaviours followed is worked out once and looked up at every call.

\* the prefixes NetworkTools.handleCidrChange lets through
ToolCidrs ==
    { parseInt(v).n : v \in { u \in ToolCidrTexts :
                                ~parseInt(u).nan /\ parseInt(u).n >= 1
                                                 /\ parseInt(u).n <= 32 } }

\* the addresses and the prefixes of the results displayed
UiIps == { t \in FieldTexts \cup ToolFieldTexts : isValidIP(t) }

UiCidrs == {24} \cup CidrChoices \cup ToolCidrs

InfoTable ==
    Worked([x \in UiIps \X UiCidrs |-> calculateIPInfo(x[1], x[2])])

\* calculateIPInfo(t, c)
InfoOf(t, c) ==
    IF <<t, c>> \in DOMAIN InfoTable THEN InfoTable[<<t, c>>]
    ELSE calculateIPInfo(t, c)

BinaryTable == Worked([t \in UiIps |-> ipToBinary(t)])

\* ipToBinary(t)
BinaryOf(t) ==
    IF t \in DOMAIN BinaryTable THEN BinaryTable[t] ELSE ipToBinary(t)

\* the counts handleGenerate hands over, and the lengths of the lists they
\* give, which handleLanguageChange hands over
UiCounts ==
    LET typed == { parseInt(v).n : v \in { u \in CountTexts :
                       ~parseInt(u).nan /\ parseInt(u).n >= 2
                                        /\ parseInt(u).n <= MaxSubnets } }
        given == { Len(generateSubnets(t, c, n)) :
                       t \in UiIps, c \in UiCidrs, n \in typed }
    IN  typed \cup given

SubnetsTable ==
    Worked([x \in UiIps \X UiCidrs \X UiCounts |->
               generateSubnets(x[1], x[2], x[3])])

\* generateSubnets(t, c, n)
SubnetsOf(t, c, n) ==
    IF <<t, c, n>> \in DOMAIN SubnetsTable THEN SubnetsTable[<<t, c, n>>]
    ELSE generateSubnets(t, c, n)

HostsTable ==
    Worked([t \in UiIps |-> generateIpsInSubnet(t, 24, ScanLimit)])

\* generateIpsInSubnet(t, 24, ScanLimit)
HostsOf(t) ==
    IF t \in DOMAIN HostsTable THEN HostsTable[t]
    ELSE generateIpsInSubnet(t, 24, ScanLimit)

\* the addresses of the two fields of the IP sweep
SweepIps ==
    { t \in StartTexts \cup EndTexts \cup LiveStartTexts \cup LiveEndTexts
             \cup ScanEndTexts : isValidIP(t) }
    \cup { HostsTable[t][1] : t \in { u \in UiIps : Len(HostsTable[u]) > 0 } }
    \cup { HostsTable[t][Len(HostsTable[t])] :
               t \in { u \in UiIps : Len(HostsTable[u]) > 0 } }

RangeTable ==
    Worked([x \in SweepIps \X SweepIps |-> calculateIpRange(x[1], x[2])])

\* calculateIpRange(first, last)
RangeOf(first, last) ==
    IF <<first, last>> \in DOMAIN RangeTable THEN RangeTable[<<first, last>>]
    ELSE calculateIpRange(first, last)

\* one call of the engine: the event in whose course it is made, the
\* function called, and the arguments (count is 0 for calculateIPInfo)
Call(by, fn, t, c, n) == [by |-> by, fn |-> fn, ip |-> t, cidr |-> c, count |-> n]

\* a JavaScript string is truthy when it is not empty
Truthy(t) == Len(t) > 0

\* IpForm.handleSubmit with the isValidIP test left out
SubmitPassesAll(t) == Truthy(t)

\* IpForm.handleSubmit goes on to onCalculate: the field is neither empty nor
\* refused by isValidIP
SubmitPasses(t) == Truthy(t) /\ isValidIP(t)

\* IpForm.handleIpChange, the user typing one of texts
handleIpChange(texts) ==
    \E v \in texts :
        /\ formIp' = v
        /\ ipError' = IF Truthy(v) /\ ~isValidIP(v) THEN "validation.invalidIp"
                      ELSE ""
        /\ binaryIp' = IF Truthy(v) /\ isValidIP(v) THEN BinaryOf(v) ELSE <<>>
        /\ calls' = <<>>
        /\ UNCHANGED <<formCidr, ipResult, subnets, currentIp, currentCidr,
                       subnetCount, error, cidrValue, ipInfo, isPinging,
                       isScanning, ipScanError, engineVars,
                       toolVars>>

\* IpForm.handleCidrChange for the option c of the select
handleFormCidrChangeTo(c) ==
    /\ c \in CidrOptions
    /\ formCidr' = c
    /\ calls' = <<>>
    /\ UNCHANGED <<formIp, ipError, binaryIp, ipResult, subnets, currentIp,
                   currentCidr, subnetCount, error, cidrValue, ipInfo,
                   isPinging, isScanning, ipScanError, engineVars,
                   toolVars>>

\* IpForm.handleCidrChange
handleFormCidrChange == \E c \in CidrChoices : handleFormCidrChangeTo(c)

\* NetworkTools.updateNetworkInfo(c) with address t: the calls it makes, in
\* the course of the event by
UpdateCalls(by, t, c) ==
    IF Truthy(t) /\ isValidIP(t)
    THEN <<Call(by, "calculateIPInfo", t, c, 0)>>
    ELSE <<>>

\* ... and the facts NetworkTools shows afterwards
UpdatedInfo(t, c) ==
    IF Truthy(t) /\ isValidIP(t) THEN <<InfoOf(t, c)>> ELSE ipInfo

\* App.handleCalculate with "setSubnets([])" left out
ListAfterCalculateKept == subnets

\* App.handleCalculate: setSubnets([])
ListAfterCalculate == <<>>

\* IpForm.handleSubmit, App.handleCalculate behind it, and the effect of
\* NetworkTools, which runs when NetworkTools is mounted (the first result)
\* and when its ip changes; mounted, NetworkTools starts its start field
\* with the address it is given
handleSubmit ==
    IF ~Truthy(formIp)
    THEN /\ ipError' = "validation.ipRequired"
         /\ calls' = <<>>
         /\ UNCHANGED <<formIp, formCidr, binaryIp, ipResult, subnets,
                        currentIp, currentCidr, subnetCount, error, cidrValue,
                        ipInfo, isPinging, isScanning, ipScanError, engineVars,
                        toolVars>>
    ELSE IF ~SubmitPasses(formIp)
    THEN /\ ipError' = "validation.enterValidIp"
         /\ calls' = <<>>
         /\ UNCHANGED <<formIp, formCidr, binaryIp, ipResult, subnets,
                        currentIp, currentCidr, subnetCount, error, cidrValue,
                        ipInfo, isPinging, isScanning, ipScanError, engineVars,
                        toolVars>>
    ELSE LET effect == ipResult = <<>> \/ currentIp # formIp
         IN  /\ ipResult' = <<InfoOf(formIp, formCidr)>>
             /\ currentIp' = formIp
             /\ currentCidr' = formCidr
             /\ subnets' = ListAfterCalculate
             /\ ipInfo' = IF effect
                          THEN IF Truthy(formIp) /\ isValidIP(formIp)
                               THEN UpdatedInfo(formIp, cidrValue) ELSE ipInfo
                          ELSE ipInfo
             /\ calls' = <<Call("handleSubmit", "calculateIPInfo",
                                formIp, formCidr, 0)>>
                         \o (IF effect /\ Truthy(formIp) /\ isValidIP(formIp)
                             THEN UpdateCalls("handleSubmit", formIp, cidrValue)
                             ELSE <<>>)
             /\ startIp' = IF ipResult = <<>> THEN formIp ELSE startIp
             /\ UNCHANGED <<formIp, formCidr, ipError, binaryIp, subnetCount,
                            error, cidrValue, isPinging, isScanning,
                            ipScanError, engineVars, pingVars, portVars,
                            sweepVars>>

\* App: the effect on actualMode, run when the effective theme changes
themeChange ==
    /\ IF ipResult # <<>>
       THEN /\ ipResult' = <<InfoOf(currentIp, currentCidr)>>
            /\ subnets' = ListAfterCalculate
            /\ calls' = <<Call("themeChange", "calculateIPInfo",
                               currentIp, currentCidr, 0)>>
       ELSE /\ calls' = <<>>
            /\ UNCHANGED <<ipResult, subnets>>
    /\ UNCHANGED <<formIp, formCidr, ipError, binaryIp, currentIp, currentCidr,
                   subnetCount, error, cidrValue, ipInfo, isPinging,
                   isScanning, ipScanError, engineVars,
                   toolVars>>

\* App.handleGenerateSubnets(n) with the prefix 24 of the first render in
\* place of currentCidr
GeneratedListDefault(n, otherwise) ==
    IF Truthy(currentIp) /\ currentCidr # 0
    THEN SubnetsOf(currentIp, 24, n)
    ELSE otherwise

\* App.handleGenerateSubnets(n): the list displayed afterwards, given the
\* list that would be displayed without it
GeneratedList(n, otherwise) ==
    IF Truthy(currentIp) /\ currentCidr # 0
    THEN SubnetsOf(currentIp, currentCidr, n)
    ELSE otherwise

\* ... and the call it makes, in the course of the event by
GenerateCalls(by, n) ==
    IF Truthy(currentIp) /\ currentCidr # 0
    THEN <<Call(by, "generateSubnets", currentIp, currentCidr, n)>>
    ELSE <<>>

\* App.handleLanguageChange, the listener of i18nextLanguageChanged
handleLanguageChange ==
    /\ IF ipResult # <<>>
       THEN /\ ipResult' = <<InfoOf(currentIp, currentCidr)>>
            /\ subnets' = IF Len(subnets) > 0
                          THEN GeneratedList(Len(subnets), ListAfterCalculate)
                          ELSE ListAfterCalculate
            /\ calls' = <<Call("handleLanguageChange", "calculateIPInfo",
                               currentIp, currentCidr, 0)>>
                        \o (IF Len(subnets) > 0
                            THEN GenerateCalls("handleLanguageChange", Len(subnets))
                            ELSE <<>>)
       ELSE /\ calls' = <<>>
            /\ UNCHANGED <<ipResult, subnets>>
    /\ UNCHANGED <<formIp, formCidr, ipError, binaryIp, currentIp, currentCidr,
                   subnetCount, error, cidrValue, ipInfo, isPinging,
                   isScanning, ipScanError, engineVars,
                   toolVars>>

\* SubnetGenerator.handleCountChange with the test count > 1024 left out
CountErrorNoMaximum(v) ==
    LET n == parseInt(v)
    IN  IF n.nan \/ n.n < 2 THEN "validation.minimum" ELSE ""

\* SubnetGenerator.handleCountChange: the message for the field content v
CountError(v) ==
    LET n == parseInt(v)
    IN  IF n.nan \/ n.n < 2 THEN "validation.minimum"
        ELSE IF n.n > MaxSubnets THEN "validation.maximum"
        ELSE ""

\* SubnetGenerator.handleCountChange, the user typing one of texts;
\* SubnetGenerator is rendered once a result is displayed
handleCountChange(texts) ==
    /\ ipResult # <<>>
    /\ \E v \in texts :
           /\ subnetCount' = v
           /\ error' = CountError(v)
    /\ calls' = <<>>
    /\ UNCHANGED <<formIp, formCidr, ipError, binaryIp, ipResult, subnets,
                   currentIp, currentCidr, cidrValue, ipInfo, isPinging,
                   isScanning, ipScanError, engineVars,
                   toolVars>>

\* SubnetGenerator.handleGenerate and App.handleGenerateSubnets behind it.
\* The button is disabled while error is set; the handler is taken for every
\* click all the same, and decides by its own test.
handleGenerate ==
    /\ ipResult # <<>>
    /\ LET n == parseInt(subnetCount)
       IN  IF ~n.nan /\ n.n >= 2 /\ n.n <= MaxSubnets
           THEN /\ subnets' = GeneratedList(n.n, subnets)
                /\ calls' = GenerateCalls("handleGenerate", n.n)
           ELSE /\ calls' = <<>>
                /\ UNCHANGED subnets
    /\ UNCHANGED <<formIp, formCidr, ipError, binaryIp, ipResult, currentIp,
                   currentCidr, subnetCount, error, cidrValue, ipInfo,
                   isPinging, isScanning, ipScanError, engineVars,
                   toolVars>>

\* NetworkTools.handleCidrChange: updateNetworkInfo(newCidr), and once more
\* by the effect on cidrValue when the value changed
handleCidrChange ==
    /\ ipResult # <<>>
    /\ \E v \in ToolCidrTexts :
           LET n == parseInt(v)
           IN  IF ~n.nan /\ n.n >= 1 /\ n.n <= 32
               THEN /\ cidrValue' = n.n
                    /\ ipInfo' = UpdatedInfo(currentIp, n.n)
                    /\ calls' = UpdateCalls("handleCidrChange", currentIp, n.n)
                                \o (IF n.n # cidrValue
                                    THEN UpdateCalls("handleCidrChange",
                                                     currentIp, n.n)
                                    ELSE <<>>)
               ELSE /\ calls' = <<>>
                    /\ UNCHANGED <<cidrValue, ipInfo>>
    /\ UNCHANGED <<formIp, formCidr, ipError, binaryIp, ipResult, subnets,
                   currentIp, currentCidr, subnetCount, error, isPinging,
                   isScanning, ipScanError, engineVars, toolVars>>

\* the histories keep their first 10 entries: newHistory.slice(0, 10)
HistoryLimit == 10

\* the history after entry e is put in front with no entry dropped
HistoryWithAll(e, history) == <<e>> \o history

\* the history after entry e is put in front: [e, ...prev], cut to its first
\* HistoryLimit entries when it has more
HistoryWith(e, history) ==
    LET newHistory == <<e>> \o history
    IN  IF Len(newHistory) > HistoryLimit
        THEN SubSeq(newHistory, 1, HistoryLimit)
        ELSE newHistory

\* sequence s without its k-th element
Without(s, k) == SubSeq(s, 1, k - 1) \o SubSeq(s, k + 1, Len(s))

\* what pingHost(t) resolves with: "success" when its fetch is answered,
\* "error" when the fetch fails or is aborted by the 3-second timer; pingHost
\* never rejects
pingHost(t, answered) ==
    [ip |-> t, status |-> IF answered THEN "success" ELSE "error"]

\* how the fetch of a ping may end: answered or not when the ping is one of
\* unanswered, the pings the network may leave without an answer
Answers(n, unanswered) == IF n \in unanswered THEN BOOLEAN ELSE {TRUE}

\* the ping button is enabled: disabled={isPinging}
PingButton == ~isPinging

\* NetworkTools.handlePing up to "await pingHost(ip)"; max bounds the pings
\* of a behaviour
handlePing(max) ==
    /\ ipResult # <<>>
    /\ PingButton
    /\ pingsMade + Len(pinging) < max
    /\ IF Truthy(currentIp) /\ isValidIP(currentIp)
       THEN /\ isPinging' = TRUE
            /\ pingResult' = <<>>
            /\ ipInfo' = <<InfoOf(currentIp, cidrValue)>>
            /\ pinging' = Append(pinging, currentIp)
            /\ calls' = <<Call("handlePing", "calculateIPInfo",
                               currentIp, cidrValue, 0)>>
       ELSE /\ calls' = <<>>
            /\ UNCHANGED <<isPinging, pingResult, ipInfo, pinging>>
    /\ UNCHANGED <<formIp, formCidr, ipError, binaryIp, ipResult, subnets,
                   currentIp, currentCidr, subnetCount, error, cidrValue,
                   isScanning, ipScanError, engineVars, startIp,
                   pingHistory, pingsMade, portVars, sweepVars>>

\* how the await of handlePing may end: pingHost resolves with the answer of
\* the host, it resolves without one (the fetch failed or was aborted), or
\* an error is thrown in the try block
PingEnds == {"answered", "unanswered", "thrown"}

\* NetworkTools.handlePing from the return of pingHost to its "finally": the
\* result is shown and put in front of the history with its time; in the
\* catch branch an error result with its time is shown and put in front.
\* The pings of a behaviour are numbered as they complete.
pingSettled ==
    /\ \E k \in 1..Len(pinging), ended \in PingEnds :
           LET result == pingHost(pinging[k], ended = "answered")
               entry  == [ip |-> result.ip, status |-> result.status,
                          timestamp |-> pingsMade + 1]
               errorResult == [ip |-> pinging[k], status |-> "error",
                               timestamp |-> pingsMade + 1]
           IN  /\ pingResult' = IF ended = "thrown" THEN <<errorResult>>
                                                     ELSE <<result>>
               /\ pingHistory' = HistoryWith(IF ended = "thrown"
                                              THEN errorResult ELSE entry,
                                              pingHistory)
               /\ pinging' = Without(pinging, k)
    /\ pingsMade' = pingsMade + 1
    /\ isPinging' = FALSE
    /\ calls' = <<>>
    /\ UNCHANGED <<formIp, formCidr, ipError, binaryIp, ipResult, subnets,
                   currentIp, currentCidr, subnetCount, error, cidrValue,
                   ipInfo, isScanning, ipScanError, engineVars, startIp,
                   portVars, sweepVars>>

\* the check button is enabled:
\* disabled={isCheckingPorts || selectedPorts.length === 0}
PortsButton == ~(isCheckingPorts \/ Len(selectedPorts) = 0)

\* NetworkTools.handleCheckPorts up to "await checkMultiplePorts"; max bounds
\* the port checks of a behaviour
handleCheckPorts(max) ==
    /\ ipResult # <<>>
    /\ PortsButton
    /\ checksMade + Len(checking) < max
    /\ IF ~Truthy(currentIp) \/ ~isValidIP(currentIp)
       THEN UNCHANGED <<portError, isCheckingPorts, portResults, checking>>
       ELSE IF Len(selectedPorts) = 0
       THEN /\ portError' = "networkTools.portScan.noPorts"
            /\ UNCHANGED <<isCheckingPorts, portResults, checking>>
       ELSE /\ portError' = ""
            /\ isCheckingPorts' = TRUE
            /\ portResults' = <<>>
            /\ checking' = Append(checking, [ip |-> currentIp,
                                             ports |-> selectedPorts])
    /\ calls' = <<>>
    /\ UNCHANGED <<formIp, formCidr, ipError, binaryIp, ipResult, subnets,
                   currentIp, currentCidr, subnetCount, error, cidrValue,
                   ipInfo, isPinging, isScanning, ipScanError, engineVars,
                   startIp, pingVars, selectedPorts, customPort, portHistory,
                   checksMade, sweepVars>>

\* what checkMultiplePorts(t, ports) resolves with when the ports of open
\* are found open; checkPort never rejects
checkMultiplePorts(t, ports, open) ==
    [k \in 1..Len(ports) |->
        [ip |-> t, port |-> ports[k],
         status |-> IF ports[k] \in open THEN "open" ELSE "closed"]]

\* the ports a check may find open: checkPort decides for each port by
\* Math.random, so any of them
Opens(ports) == SUBSET { ports[k] : k \in 1..Len(ports) }

\* what an entry of the port history keeps of the results of its check: the
\* ports, in the order in which they were checked
Checked(results) == [k \in 1..Len(results) |-> results[k].port]

\* NetworkTools.handleCheckPorts from the return of checkMultiplePorts to
\* its "finally": the results are shown and an entry is put in front of the
\* history with its time; in the catch branch, when an error is thrown in
\* the try block, nothing is shown and no entry is made.  The port checks of
\* a behaviour are numbered as they make their entry.
portsSettled ==
    /\ \E k \in 1..Len(checking) :
        \/ \E open \in Opens(checking[k].ports) :
              LET results == checkMultiplePorts(checking[k].ip,
                                                checking[k].ports, open)
                  entry   == [ip |-> checking[k].ip,
                              timestamp |-> checksMade + 1,
                              ports |-> Checked(results)]
              IN  /\ portResults' = results
                  /\ portHistory' = HistoryWith(entry, portHistory)
                  /\ checksMade' = checksMade + 1
                  /\ checking' = Without(checking, k)
        \/ /\ checking' = Without(checking, k)
           /\ UNCHANGED <<portResults, portHistory, checksMade>>
    /\ isCheckingPorts' = FALSE
    /\ calls' = <<>>
    /\ UNCHANGED <<formIp, formCidr, ipError, binaryIp, ipResult, subnets,
                   currentIp, currentCidr, subnetCount, error, cidrValue,
                   ipInfo, isPinging, isScanning, ipScanError, engineVars,
                   startIp, pingVars, selectedPorts, customPort, portError,
                   sweepVars>>

\* NetworkTools.handlePortChange: the select of the common ports hands over
\* the list chosen, one of values
handlePortChange(values) ==
    /\ ipResult # <<>>
    /\ \E v \in values : selectedPorts' = v
    /\ calls' = <<>>
    /\ UNCHANGED <<formIp, formCidr, ipError, binaryIp, ipResult, subnets,
                   currentIp, currentCidr, subnetCount, error, cidrValue,
                   ipInfo, isPinging, isScanning, ipScanError, engineVars,
                   startIp, pingVars, isCheckingPorts, customPort, portResults,
                   portError, portHistory, checksMade, checking, sweepVars>>

\* the custom port field: onChange, setCustomPort with the number typed, one
\* of values, or with '' when the field is emptied.  The field is a number
\* input: what it hands over is the text of a number or the empty text.
setCustomPort(values) ==
    /\ ipResult # <<>>
    /\ \E v \in { <<n>> : n \in values } \cup {<<>>} : customPort' = v
    /\ calls' = <<>>
    /\ UNCHANGED <<formIp, formCidr, ipError, binaryIp, ipResult, subnets,
                   currentIp, currentCidr, subnetCount, error, cidrValue,
                   ipInfo, isPinging, isScanning, ipScanError, engineVars,
                   startIp, pingVars, isCheckingPorts, selectedPorts,
                   portResults, portError, portHistory, checksMade, checking,
                   sweepVars>>

\* the ports a check may be asked for
MaxPort == 65535

\* Array.prototype.includes
Includes(s, e) == \E k \in 1..Len(s) : s[k] = e

\* NetworkTools.handleAddCustomPort, the click on Add
handleAddCustomPort ==
    /\ ipResult # <<>>
    /\ IF customPort = <<>>
       THEN /\ portError' = "networkTools.portScan.invalidPort"
            /\ UNCHANGED <<selectedPorts, customPort>>
       ELSE IF customPort[1] < 1 \/ customPort[1] > MaxPort
       THEN /\ portError' = "networkTools.portScan.portRangeError"
            /\ UNCHANGED <<selectedPorts, customPort>>
       ELSE IF Includes(selectedPorts, customPort[1])
       THEN /\ portError' = "networkTools.portScan.portAlreadyAdded"
            /\ UNCHANGED <<selectedPorts, customPort>>
       ELSE /\ portError' = ""
            /\ selectedPorts' = Append(selectedPorts, customPort[1])
            /\ customPort' = <<>>
    /\ calls' = <<>>
    /\ UNCHANGED <<formIp, formCidr, ipError, binaryIp, ipResult, subnets,
                   currentIp, currentCidr, subnetCount, error, cidrValue,
                   ipInfo, isPinging, isScanning, ipScanError, engineVars,
                   startIp, pingVars, isCheckingPorts, portResults,
                   portHistory, checksMade, checking, sweepVars>>

\* NetworkTools.removePort(port): selectedPorts without port.  No element
\* of the component calls it.
removePort(port) ==
    /\ ipResult # <<>>
    /\ selectedPorts' = SelectSeq(selectedPorts, LAMBDA q : q # port)
    /\ calls' = <<>>
    /\ UNCHANGED <<formIp, formCidr, ipError, binaryIp, ipResult, subnets,
                   currentIp, currentCidr, subnetCount, error, cidrValue,
                   ipInfo, isPinging, isScanning, ipScanError, engineVars,
                   startIp, pingVars, isCheckingPorts, customPort, portResults,
                   portError, portHistory, checksMade, checking, sweepVars>>

\* the start field of the IP sweep: onChange, setStartIp
setStartIp(texts) ==
    /\ ipResult # <<>>
    /\ \E t \in texts : startIp' = t
    /\ calls' = <<>>
    /\ UNCHANGED <<formIp, formCidr, ipError, binaryIp, ipResult, subnets,
                   currentIp, currentCidr, subnetCount, error, cidrValue,
                   ipInfo, isPinging, isScanning, ipScanError, engineVars,
                   pingVars, portVars, sweepVars>>

\* the end field of the IP sweep: onChange, setEndIp
setEndIp(texts) ==
    /\ ipResult # <<>>
    /\ \E t \in texts : endIp' = t
    /\ calls' = <<>>
    /\ UNCHANGED <<formIp, formCidr, ipError, binaryIp, ipResult, subnets,
                   currentIp, currentCidr, subnetCount, error, cidrValue,
                   ipInfo, isPinging, isScanning, ipScanError, engineVars,
                   startIp, pingVars, portVars, scanResults, scan>>

\* scanIpRange pings batchSize addresses at a time
batchSize == 5

\* a sweep is refused when it has more addresses than this
MaxSweep == 50

\* the positions in ips of the batch that starts after position i:
\* ips.slice(i, i + batchSize)
Batch(ips, i) ==
    { j \in 1..Len(ips) : j > i /\ j <= i + batchSize }

\* scanIpRange(ips), called by the handler named by, up to its first await:
\* the pings of the first batch are under way, none has resolved
Scanning(by, args, ips) ==
    [by |-> by, args |-> args, ips |-> ips, i |-> 0, pending |-> Batch(ips, 0),
     got |-> <<>>, results |-> <<>>]

\* isScanning after a scan handler has refused its list with the flag
\* set, were the flag left as it is
AfterRefusalHeld == TRUE

\* isScanning after a scan handler has refused its list (empty, or more
\* than MaxSweep addresses) with the flag set: setIsScanning(false) before
\* the return, and once more in "finally"
AfterRefusal == FALSE

\* the range scan button is enabled:
\* disabled={isScanning || !startIp || !endIp}
RangeButton == ~(isScanning \/ ~Truthy(startIp) \/ ~Truthy(endIp))

\* NetworkTools.handleIpRangeScan up to "await scanIpRange(ips)"
handleIpRangeScan ==
    /\ ipResult # <<>>
    /\ RangeButton
    /\ IF ~Truthy(startIp) \/ ~Truthy(endIp)
       THEN /\ ipScanError' = "networkTools.ping.errors.provideIps"
            /\ UNCHANGED <<isScanning, scanResults, scan>>
       ELSE IF ~isValidIP(startIp) \/ ~isValidIP(endIp)
       THEN /\ ipScanError' = "networkTools.ping.errors.validIps"
            /\ UNCHANGED <<isScanning, scanResults, scan>>
       ELSE LET ips == RangeOf(startIp, endIp)
            IN  /\ scanResults' = <<>>
                /\ IF Len(ips) = 0
                   THEN /\ ipScanError' = "networkTools.ping.errors.invalidRange"
                        /\ isScanning' = AfterRefusal
                        /\ UNCHANGED scan
                   ELSE IF Len(ips) > MaxSweep
                   THEN /\ ipScanError' = "networkTools.ping.errors.tooManyIps"
                        /\ isScanning' = AfterRefusal
                        /\ UNCHANGED scan
                   ELSE /\ ipScanError' = ""
                        /\ isScanning' = TRUE
                        /\ scan' = Append(scan,
                                          Scanning("handleIpRangeScan",
                                                   <<startIp, endIp>>, ips))
    /\ calls' = <<>>
    /\ UNCHANGED <<formIp, formCidr, ipError, binaryIp, ipResult, subnets,
                   currentIp, currentCidr, subnetCount, error, cidrValue,
                   ipInfo, isPinging, engineVars, startIp, pingVars,
                   portVars, endIp>>

\* the subnet scan button is enabled: disabled={isScanning || !ip}
SubnetButton == ~(isScanning \/ ~Truthy(currentIp))

\* NetworkTools.handleScanSubnet up to "await scanIpRange(subnetIps)"
handleScanSubnet ==
    /\ ipResult # <<>>
    /\ SubnetButton
    /\ IF ~Truthy(currentIp)
       THEN /\ ipScanError' = "networkTools.ping.errors.ipRequired"
            /\ calls' = <<>>
            /\ UNCHANGED <<isScanning, scanResults, scan, startIp, endIp>>
       ELSE IF ~isValidIP(currentIp)
       THEN /\ ipScanError' = "networkTools.ping.errors.validIps"
            /\ calls' = <<>>
            /\ UNCHANGED <<isScanning, scanResults, scan, startIp, endIp>>
       ELSE LET subnetIps == HostsOf(currentIp)
            IN  /\ scanResults' = <<>>
                /\ calls' = <<Call("handleScanSubnet", "calculateIPInfo",
                                   currentIp, 24, 0)>>
                /\ IF Len(subnetIps) = 0
                   THEN /\ ipScanError' = "networkTools.ping.errors.noIps"
                        /\ isScanning' = AfterRefusal
                        /\ UNCHANGED <<scan, startIp, endIp>>
                   ELSE /\ ipScanError' = ""
                        /\ isScanning' = TRUE
                        /\ startIp' = subnetIps[1]
                        /\ endIp' = subnetIps[Len(subnetIps)]
                        /\ scan' = Append(scan,
                                          Scanning("handleScanSubnet",
                                                   <<currentIp>>, subnetIps))
    /\ UNCHANGED <<formIp, formCidr, ipError, binaryIp, ipResult, subnets,
                   currentIp, currentCidr, subnetCount, error, cidrValue,
                   ipInfo, isPinging, engineVars, pingVars, portVars>>

\* the results of a batch in the order in which its pings resolved
BatchAsResolved(got, i) == [j \in 1..Len(got) |-> got[j].result]

\* what Promise.all gives for a batch: the results in the order of the
\* batch, whatever the order in which its pings resolved
BatchResults(got, i) ==
    [j \in 1..Len(got) |->
        (CHOOSE g \in { got[n] : n \in 1..Len(got) } : g.pos = i + j).result]

\* scanIpRange when one of the pings it awaits resolves.  The ping that
\* resolves last in its batch ends the await of Promise.all: the results of
\* the batch are pushed, in the order of the batch, and the next batch
\* starts; after the last batch scanIpRange returns and the handler goes on
\* to its "finally".  The pings of a scan are numbered by their place in
\* its list; unanswered holds the numbers of those that may fail, overtaken
\* the numbers of those that a ping started after them may resolve before.
pingOfScanResolves(unanswered, overtaken) ==
    /\ \E w \in 1..Len(scan) : \E j \in scan[w].pending :
        \E answered \in Answers(j, unanswered) :
           LET s    == scan[w]
               got  == Append(s.got, [pos |-> j,
                                      result |-> pingHost(s.ips[j], answered)])
               all  == s.results \o BatchResults(got, s.i)
               next == s.i + batchSize
           IN  /\ \A n \in s.pending : n < j => n \in overtaken
               /\ IF s.pending # {j}
                  THEN /\ scan' = [scan EXCEPT ![w] =
                                      [s EXCEPT !.pending = s.pending \ {j},
                                                !.got = got]]
                       /\ UNCHANGED <<scanResults, isScanning>>
                  ELSE IF next < Len(s.ips)
                  THEN /\ scan' = [scan EXCEPT ![w] =
                                      [s EXCEPT !.i = next,
                                                !.pending = Batch(s.ips, next),
                                                !.got = <<>>,
                                                !.results = all]]
                       /\ UNCHANGED <<scanResults, isScanning>>
                  ELSE /\ scan' = Without(scan, w)
                       /\ scanResults' = all
                       /\ isScanning' = FALSE
    /\ calls' = <<>>
    /\ UNCHANGED <<formIp, formCidr, ipError, binaryIp, ipResult, subnets,
                   currentIp, currentCidr, subnetCount, error, cidrValue,
                   ipInfo, isPinging, ipScanError, engineVars, startIp,
                   pingVars, portVars, endIp>>

\* the results scanIpRange(ips) returns, one for each address in the order
\* of ips, of each the address
Scanned(ips) == [n \in 1..Len(ips) |-> [ip |-> ips[n]]]

\* the message of the catch branch of the scan handler named by
ScanError(by) ==
    IF by = "handleScanSubnet" THEN "networkTools.ping.errors.subnetError"
                               ELSE "networkTools.ping.errors.scanError"

\* handleIpRangeScan and handleScanSubnet from the return of scanIpRange to
\* their "finally", the scan taken as the one call the handler awaits: its
\* results are shown; in the catch branch, when an error is thrown in the
\* try block, the message of the handler is shown and scanResults stays as
\* the handler emptied it
scanSettled ==
    /\ \E w \in 1..Len(scan) :
        /\ \/ /\ scanResults' = Scanned(scan[w].ips)
              /\ UNCHANGED ipScanError
           \/ /\ ipScanError' = ScanError(scan[w].by)
              /\ UNCHANGED scanResults
        /\ scan' = Without(scan, w)
    /\ isScanning' = FALSE
    /\ calls' = <<>>
    /\ UNCHANGED <<formIp, formCidr, ipError, binaryIp, ipResult, subnets,
                   currentIp, currentCidr, subnetCount, error, cidrValue,
                   ipInfo, isPinging, engineVars, startIp, pingVars,
                   portVars, endIp>>

FewRuns == 1         \* pings and port checks of a behaviour, where few do

MoreRuns == 2        \* the same where one is to follow another

MaxRuns == 11        \* the same where the histories are to overflow

\* every ping of a scan: each may be left unanswered, each may be overtaken
\* by the pings started after it
AnyPing == 1..MaxSweep

InitApp ==
    /\ ip = DefaultIp /\ cidr = 24 /\ value = ZeroWord /\ count = 2
    /\ op = "idle" /\ out = NoResult
    /\ InitUi

\* the events in whose course the engine is called, in IpForm, App,
\* SubnetGenerator and NetworkTools, with the edits of the address field,
\* of the prefix select and of the count field, and the steps that end the
\* ping and the subnet scan they start
NextApp ==
    \/ handleIpChange(FieldTexts)
    \/ handleFormCidrChange
    \/ handleSubmit
    \/ themeChange
    \/ handleLanguageChange
    \/ handleCountChange(CountTexts)
    \/ handleGenerate
    \/ handleCidrChange
    \/ handlePing(FewRuns)
    \/ pingSettled
    \/ handleScanSubnet
    \/ scanSettled

SpecApp == InitApp /\ [][NextApp]_vars

\* IpForm, App and SubnetGenerator alone, with every count text
NextCount ==
    \/ handleIpChange(FieldTexts)
    \/ handleFormCidrChange
    \/ handleSubmit
    \/ handleCountChange(CountTexts)
    \/ handleGenerate

SpecCount == InitApp /\ [][NextCount]_vars

\* IpForm, App and SubnetGenerator with the theme and the language changing
NextDisplay ==
    \/ handleIpChange(FieldTexts)
    \/ handleFormCidrChange
    \/ handleSubmit
    \/ themeChange
    \/ handleLanguageChange
    \/ handleCountChange(CountTexts)
    \/ handleGenerate

SpecDisplay == InitApp /\ [][NextDisplay]_vars

\* the range scan of NetworkTools: the two fields and handleIpRangeScan,
\* with every ping of scanIpRange answered or not, the pings of a batch
\* resolving in any order
NextRange ==
    \/ handleIpChange(ToolFieldTexts)
    \/ handleSubmit
    \/ setStartIp(StartTexts)
    \/ setEndIp(EndTexts)
    \/ handleIpRangeScan
    \/ pingOfScanResolves(AnyPing, AnyPing)

SpecRange == InitApp /\ [][NextRange]_vars

\* pings and port checks until the histories overflow, each ending in any
\* of its ways
NextHistory ==
    \/ handleIpChange(ToolFieldTexts)
    \/ handleSubmit
    \/ handlePing(MaxRuns)
    \/ pingSettled
    \/ handleCheckPorts(MaxRuns)
    \/ portsSettled

SpecHistory == InitApp /\ [][NextHistory]_vars

\* the port panel of NetworkTools: the select of the common ports, the
\* custom port field with its button, and the port check
NextPorts ==
    \/ handleIpChange(ToolFieldTexts)
    \/ handleSubmit
    \/ handlePortChange(PortLists)
    \/ setCustomPort(CustomPorts)
    \/ handleAddCustomPort
    \/ handleCheckPorts(FewRuns)
    \/ portsSettled

SpecPorts == InitApp /\ [][NextPorts]_vars

\* every operation of the network tools, each to its end and ending in any
\* of its ways
NextLive ==
    \/ handleIpChange(ToolFieldTexts)
    \/ handleSubmit
    \/ handlePing(MoreRuns)
    \/ pingSettled
    \/ handleCheckPorts(MoreRuns)
    \/ portsSettled
    \/ setStartIp(LiveStartTexts)
    \/ setEndIp(LiveEndTexts)
    \/ handleIpRangeScan
    \/ handleScanSubnet
    \/ scanSettled

SpecTools == InitApp /\ [][NextLive]_vars

\* every operation that is awaited ends: the fetch of pingHost returns,
\* fails or is aborted by the 3-second timer, the timer of checkPort fires
SpecLive ==
    /\ SpecTools
    /\ WF_vars(pingSettled)
    /\ WF_vars(portsSettled)
    /\ WF_vars(scanSettled)

\* the range scan with every ping of scanIpRange answered or not, the
\* pings of a batch resolving in any order
NextScan ==
    \/ handleIpChange(ToolFieldTexts)
    \/ handleSubmit
    \/ setEndIp(ScanEndTexts)
    \/ handleIpRangeScan
    \/ pingOfScanResolves(AnyPing, AnyPing)

SpecScan == InitApp /\ [][NextScan]_vars

\* every ping that is under way resolves: the fetch of pingHost ends, or its
\* 3-second timer aborts it
SpecScanFair == SpecScan /\ WF_vars(pingOfScanResolves(AnyPing, AnyPing))

----------------------------------------------------------------------------
(* What the claims are stated with: addresses as four octet values,        *)
(* computed with plain arithmetic and not with the engine's word           *)
(* operations.                                                             *)

\* a text of exactly four dot-separated runs of one to three decimal digits,
\* each of value 0..255
WellFormed(t) ==
    LET p == Split(t)
    IN  /\ Len(p) = 4
        /\ \A k \in 1..4 :
              /\ Len(p[k]) \in 1..3
              /\ \A i \in 1..Len(p[k]) : IsDigit(p[k][i])
              /\ DigitsValue(p[k]) \in 0..255

\* the four octet values of a well-formed text, most significant first
OctetsOf(t) == LET p == Split(t) IN [k \in 1..4 |-> DigitsValue(p[k])]

QuadOf(o) == Quad(o[1], o[2], o[3], o[4])

\* a < b as 32-bit unsigned values
Less4(a, b) ==
    \E k \in 1..4 : a[k] < b[k] /\ \A j \in 1..(k - 1) : a[j] = b[j]

\* a + 1 modulo 2^32
Succ4(a) ==
    [k \in 1..4 |->
        IF \A j \in (k + 1)..4 : a[j] = 255 THEN (a[k] + 1) % 256 ELSE a[k]]

\* how many of the low h bits of a 32-bit value lie in octet k
HostBitsIn(k, h) ==
    LET low == 8 * (4 - k)
    IN  IF h <= low THEN 0 ELSE IF h >= low + 8 THEN 8 ELSE h - low

\* the octets of the mask of prefix p: the top p bits 1, the rest 0
MaskOctets(p) == [k \in 1..4 |-> 256 - 2 ^ HostBitsIn(k, 32 - p)]

\* a with its low 32 - p bits cleared, and with them set
Cleared(a, p) ==
    [k \in 1..4 |-> LET hk == 2 ^ HostBitsIn(k, 32 - p) IN (a[k] \div hk) * hk]

Filled(a, p) ==
    [k \in 1..4 |-> LET hk == 2 ^ HostBitsIn(k, 32 - p)
                    IN  (a[k] \div hk) * hk + (hk - 1)]

Calculated == op = "calculateIPInfo" /\ isValidIP(ip) /\ cidr \in 0..32

\* the carry into octet k of a + b, octet 4 being the lowest; the carry into
\* octet 0 is the one that leaves the 32 bits
RECURSIVE Carry4(_, _, _)
Carry4(a, b, k) ==
    IF k = 4 THEN 0 ELSE (a[k + 1] + b[k + 1] + Carry4(a, b, k + 1)) \div 256

\* a + b, when it stays below 2^32
Add4(a, b) == [k \in 1..4 |-> (a[k] + b[k] + Carry4(a, b, k)) % 256]

Fits4(a, b) == Carry4(a, b, 0) = 0

\* the octets of 2^h - 1, for h in 0..32
LowOnes(h) == [k \in 1..4 |-> 2 ^ HostBitsIn(k, h) - 1]

\* a <= b as 32-bit unsigned values
AtMost4(a, b) == a = b \/ Less4(a, b)

\* the least b with 2^b >= n, for n in 1..2048
Log2Up(n) == CHOOSE b \in 0..11 : 2 ^ b >= n /\ (b = 0 \/ 2 ^ (b - 1) < n)

\* x & y for two octet values, bit by bit from bit j up
RECURSIVE AndOctet(_, _, _)
AndOctet(x, y, j) ==
    IF j > 7 THEN 0
    ELSE ((x \div (2 ^ j)) % 2) * ((y \div (2 ^ j)) % 2) * (2 ^ j)
             + AndOctet(x, y, j + 1)

And4(a, b) == [k \in 1..4 |-> AndOctet(a[k], b[k], 0)]

\* ~a, and a | ~m for a word a that has no bit outside m
Not4(a) == [k \in 1..4 |-> 255 - a[k]]

\* the unsigned value of the eight bits of word w that make octet k
BitsOctet(w, k) ==
    LET low == 8 * (4 - k)
    IN  w[low] + 2 * w[low + 1] + 4 * w[low + 2] + 8 * w[low + 3]
          + 16 * w[low + 4] + 32 * w[low + 5] + 64 * w[low + 6]
          + 128 * w[low + 7]

\* a valid address with its top bit set (128.0.0.0 and up), a prefix in 0..32
TopBitSet == isValidIP(ip) /\ cidr \in 0..32 /\ OctetsOf(ip)[1] >= 128

\* generateSubnets has run on a valid address, a prefix in 0..32 and a count
\* in 2..1024
Generated ==
    /\ op = "generateSubnets"
    /\ isValidIP(ip)
    /\ cidr \in 0..32
    /\ count \in 2..MaxSubnets

----------------------------------------------------------------------------
(* Claims *)

\* C1: for every prefix P in 0..32 cidrToSubnetMask returns the mask whose
\* top P bits are 1 and whose low 32-P bits are 0 (0.0.0.0 for P = 0,
\* 255.255.255.255 for P = 32).  The code shifts by P modulo 32, so P = 32
\* gives 0.0.0.0.
C1_MaskOfEveryPrefix ==
    (op = "cidrToSubnetMask" /\ cidr \in 0..32)
        => out.mask = QuadOf(MaskOctets(cidr))

\* C2: for every prefix P in 0..32, subnetMaskToCidr(cidrToSubnetMask(P)) = P.
\* Fails at P = 32, whose mask comes out as 0.0.0.0.
C2_MaskPrefixInverse ==
    (op = "cidrToSubnetMask" /\ cidr \in 0..32) => out.back = cidr

\* C3: for every valid address A, calculateIPInfo(A, 32) has networkAddress =
\* broadcastAddress = A, totalHosts 1 and usableHosts 0.
C3_HostRoute ==
    (Calculated /\ cidr = 32)
        => /\ out.info.networkAddress = QuadOf(OctetsOf(ip))
           /\ out.info.broadcastAddress = QuadOf(OctetsOf(ip))
           /\ out.info.totalHosts = [m |-> 1, e |-> 0]
           /\ out.info.usableHosts = [m |-> 0, e |-> 0]

\* C4: for every valid address A and prefix P in 0..32, networkAddress is A
\* with its low 32-P bits cleared and broadcastAddress is A with them set
\* (0.0.0.0 and 255.255.255.255 for P = 0).
C4_NetworkAndBroadcast ==
    Calculated
        => /\ out.info.networkAddress = QuadOf(Cleared(OctetsOf(ip), cidr))
           /\ out.info.broadcastAddress = QuadOf(Filled(OctetsOf(ip), cidr))

\* C5: for every valid address and prefix P in 0..32, firstValidHost is the
\* reported networkAddress + 1 and lastValidHost the reported
\* broadcastAddress - 1, as 32-bit unsigned values, with no special case:
\* network < first <= last < broadcast for P <= 30, and first > last for
\* P = 31, where the call still returns.
C5_HostRange ==
    Calculated
        => LET net   == OctetsOf(out.info.networkAddress)
               bcast == OctetsOf(out.info.broadcastAddress)
               first == OctetsOf(out.info.firstValidHost)
               last  == OctetsOf(out.info.lastValidHost)
           IN  /\ out.error = "none"
               /\ WellFormed(out.info.firstValidHost)
               /\ WellFormed(out.info.lastValidHost)
               /\ first = Succ4(net)
               /\ Succ4(last) = bcast
               /\ cidr <= 30 => /\ Less4(net, first)
                                /\ (first = last \/ Less4(first, last))
                                /\ Less4(last, bcast)
               /\ cidr = 31 => Less4(last, first)

\* 10.0.0.5/31 is calculated: first host 10.0.0.5, last host 10.0.0.4
W5_HostRange ==
    /\ Calculated /\ cidr = 31
    /\ ip = <<"1", "0", ".", "0", ".", "0", ".", "5">>
    /\ out.info.firstValidHost = <<"1", "0", ".", "0", ".", "0", ".", "5">>
    /\ out.info.lastValidHost = <<"1", "0", ".", "0", ".", "0", ".", "4">>

\* C6: for every prefix P in 0..32, totalHosts = 2^(32-P), and usableHosts =
\* totalHosts - 2 when totalHosts > 2 and 0 otherwise: 0 for /31 and /32,
\* never negative.  (2^k - 2 = 2 * (2^(k-1) - 1), the odd factor being m.)
C6_HostCounts ==
    Calculated
        => LET k == 32 - cidr
               u == out.info.usableHosts
           IN  /\ out.info.totalHosts = [m |-> 1, e |-> k]
               /\ u.m >= 0
               /\ k <= 1 => u = [m |-> 0, e |-> 0]
               /\ k >= 2 => /\ u.e = 1
                            /\ u.m % 2 = 1
                            /\ (u.m - 1) \div 2 + 1 = 2 ^ (k - 2)

\* a /32 is calculated: one address in total, none usable
W6_HostCounts ==
    /\ Calculated /\ cidr = 32
    /\ out.info.totalHosts = [m |-> 1, e |-> 0]
    /\ out.info.usableHosts = [m |-> 0, e |-> 0]

\* C7: calculateIPInfo validates its inputs before computing: a malformed
\* address fails with InvalidAddress, a prefix outside 0..32 with
\* InvalidPrefix, and no result is returned then.  The code validates
\* nothing and returns a result for every input.
C7_InputsValidated ==
    op = "calculateIPInfo"
        => /\ ~isValidIP(ip) => out.error = "InvalidAddress"
           /\ (isValidIP(ip) /\ cidr \notin 0..32) => out.error = "InvalidPrefix"

\* C8: isValidIP(text) is true exactly when the text is four dot-separated
\* decimal octets (one to three digits each) of value 0..255 and nothing
\* else; for every other text it returns false, and it never throws.
C8_ValidAddress ==
    op = "isValidIP" => /\ out.error = "none"
                        /\ out.valid <=> WellFormed(ip)

\* a text with an octet of 256 is rejected
W8_ValidAddress ==
    /\ op = "isValidIP"
    /\ ip = <<"1", "0", ".", "2", "5", "6", ".", "1", "0", ".", "1", "0">>
    /\ ~out.valid

\* C9: for every text A isValidIP accepts, intToIp(ipToInt(A)) = A character
\* for character.  isValidIP accepts octets with leading zeros, which
\* intToIp never writes.
C9_TextRoundTrip ==
    (op = "ipToInt" /\ isValidIP(ip)) => out.back = ip

\* C10: for every 32-bit unsigned V, intToIp(V) returns four octets in
\* 0..255 and ipToInt(intToIp(V)) = V.
C10_WordRoundTrip ==
    op = "intToIp" => /\ out.error = "none"
                      /\ WellFormed(out.text)
                      /\ out.back = value

\* 255.128.1.127, whose top bit is set, is written and read back
W10_WordRoundTrip ==
    /\ op = "intToIp"
    /\ value = WordOf(255, 128, 1, 127)
    /\ out.text = <<"2", "5", "5", ".", "1", "2", "8", ".", "1", ".", "1", "2", "7">>
    /\ out.back = value

\* C11: for every valid address, baseCidr in 0..32 and subnetCount in
\* 2..1024, the list generateSubnets returns has ids 1, 2, ..., n in order,
\* one cidr for all subnets, strictly increasing network addresses, and
\* subnet[i].broadcastAddress + 1 = subnet[i+1].networkAddress for every
\* consecutive pair, the two subnets not overlapping.
C11_Partition ==
    Generated
        => LET S == out.subnets
           IN  /\ \A k \in 1..Len(S) :
                     /\ S[k].id = k
                     /\ S[k].cidr = S[1].cidr
                     /\ WellFormed(S[k].networkAddress)
                     /\ WellFormed(S[k].broadcastAddress)
               /\ \A k \in 1..(Len(S) - 1) :
                     LET net   == OctetsOf(S[k].networkAddress)
                         bcast == OctetsOf(S[k].broadcastAddress)
                         after == OctetsOf(S[k + 1].networkAddress)
                     IN  /\ Less4(net, after)
                         /\ AtMost4(net, bcast)
                         /\ Less4(bcast, after)
                         /\ Succ4(bcast) = after

\* 10.0.0.5/8 is divided in 1024: the last subnet is number 1024, at
\* 10.255.192.0
W11_Partition ==
    /\ Generated /\ cidr = 8 /\ count = 1024
    /\ Len(out.subnets) = 1024
    /\ out.subnets[1024].id = 1024
    /\ out.subnets[1024].networkAddress =
           <<"1", "0", ".", "2", "5", "5", ".", "1", "9", "2", ".", "0">>

\* C12: for every valid address, baseCidr in 0..32 and subnetCount in
\* 2..1024, generateSubnets uses newCidr = min(baseCidr + ceil(log2(count)),
\* 30) and returns exactly min(subnetCount, 2^(newCidr - baseCidr)) subnets,
\* fewer than asked without an error when the clamp at 30 leaves fewer.  For
\* baseCidr 31 and 32 the clamp puts newCidr below baseCidr, 2^(newCidr -
\* baseCidr) is 1/2 or 1/4, and the code returns one subnet.
C12_SubnetCount ==
    Generated
        => LET wanted  == cidr + Log2Up(count)
               newCidr == IF wanted < 30 THEN wanted ELSE 30
               S       == out.subnets
           IN  /\ out.error = "none"
               /\ \A k \in 1..Len(S) : S[k].cidr = newCidr
               /\ newCidr >= cidr
               /\ Len(S) = IF count < 2 ^ (newCidr - cidr)
                           THEN count ELSE 2 ^ (newCidr - cidr)

\* C13: every subnet generateSubnets emits, for subnetCount in 2..1024, has
\* cidr <= 30, broadcastAddress = networkAddress + 2^(32-cidr) - 1,
\* firstHost = networkAddress + 1, lastHost = broadcastAddress - 1 and
\* usableHosts = 2^(32-cidr) - 2 >= 2.  The one subnet made of
\* 255.255.255.255/31 starts at 255.255.255.254 and is four addresses long:
\* its broadcastAddress comes out as 0.0.0.1.
C13_SubnetShape ==
    Generated
        => \A k \in 1..Len(out.subnets) :
               LET s     == out.subnets[k]
                   h     == 32 - s.cidr
                   net   == OctetsOf(s.networkAddress)
                   bcast == OctetsOf(s.broadcastAddress)
                   first == OctetsOf(s.firstHost)
                   last  == OctetsOf(s.lastHost)
               IN  /\ s.cidr <= 30
                   /\ Fits4(net, LowOnes(h))
                   /\ bcast = Add4(net, LowOnes(h))
                   /\ first = Succ4(net) /\ Less4(net, first)
                   /\ Succ4(last) = bcast /\ Less4(last, bcast)
                   /\ s.usableHosts.e = 1
                   /\ s.usableHosts.m % 2 = 1
                   /\ (s.usableHosts.m - 1) \div 2 + 1 = 2 ^ (h - 2)

\* C14: when subnetCount is a power of two 2^k and baseCidr + k <= 30,
\* generateSubnets returns exactly 2^k subnets of prefix baseCidr + k that
\* tile the parent network: the first starts at the parent's network address,
\* each next one right after the one before, and the last ends at the
\* parent's broadcast address, each with 2^(32 - baseCidr - k) - 2 usable
\* hosts.
C14_PowerOfTwoTiling ==
    \A k \in 0..10 :
        (/\ op = "generateSubnets" /\ isValidIP(ip) /\ cidr \in 0..32
         /\ count = 2 ^ k /\ cidr + k <= 30)
            => LET S == out.subnets
                   h == 32 - (cidr + k)
               IN  /\ Len(S) = count
                   /\ \A i \in 1..Len(S) :
                         /\ S[i].cidr = cidr + k
                         /\ S[i].usableHosts.m % 2 = 1
                         /\ (S[i].usableHosts.m - 1) \div 2 + 1 = 2 ^ (h - 2)
                         /\ S[i].usableHosts.e = 1
                   /\ S[1].networkAddress = QuadOf(Cleared(OctetsOf(ip), cidr))
                   /\ \A i \in 1..(Len(S) - 1) :
                         Succ4(OctetsOf(S[i].broadcastAddress))
                             = OctetsOf(S[i + 1].networkAddress)
                   /\ S[Len(S)].broadcastAddress
                          = QuadOf(Filled(OctetsOf(ip), cidr))

\* 192.168.0.0/24 with count 4 gives .0/26, .64/26, .128/26 and .192/26, each
\* with 62 usable hosts
W14_PowerOfTwoTiling ==
    /\ op = "generateSubnets" /\ cidr = 24 /\ count = 4
    /\ ip = <<"1", "9", "2", ".", "1", "6", "8", ".", "0", ".", "0">>
    /\ Len(out.subnets) = 4
    /\ \A i \in 1..4 : /\ out.subnets[i].cidr = 26
                       /\ out.subnets[i].usableHosts = [m |-> 31, e |-> 1]
    /\ [i \in 1..4 |-> out.subnets[i].networkAddress]
           = <<Quad(192, 168, 0, 0), Quad(192, 168, 0, 64),
               Quad(192, 168, 0, 128), Quad(192, 168, 0, 192)>>
    /\ out.subnets[4].broadcastAddress = Quad(192, 168, 0, 255)

\* C15: generateSubnets fails with InvalidSubnetCount when subnetCount is
\* outside 2..1024 (0, 1, 1025) and returns no list then; it fails with
\* InvalidAddress for a malformed address and with InvalidPrefix for a base
\* prefix outside 0..32.  The code validates nothing and returns a list for
\* every input.
C15_GeneratorValidates ==
    op = "generateSubnets"
        => /\ (isValidIP(ip) /\ cidr \in 0..32 /\ count \notin 2..MaxSubnets)
                  => out.error = "InvalidSubnetCount"
           /\ (~isValidIP(ip) /\ count \in 2..MaxSubnets)
                  => out.error = "InvalidAddress"
           /\ (isValidIP(ip) /\ cidr \notin 0..32 /\ count \in 2..MaxSubnets)
                  => out.error = "InvalidPrefix"
           /\ (~isValidIP(ip) \/ cidr \notin 0..32 \/ count \notin 2..MaxSubnets)
                  => "subnets" \notin DOMAIN out

\* C16: all 32-bit arithmetic is unsigned.  For every valid address with its
\* top bit set and every prefix in 0..32: ipToInt returns the word whose
\* octets are the address's, bit 31 set (a value in 2^31 .. 2^32 - 1); every
\* address field of the result of calculateIPInfo and of every generated
\* subnet is a dotted quad of octets in 0..255, equal to the unsigned result:
\* network = address & mask, broadcast = network + ~mask, first = network +
\* 1, last = broadcast - 1, wildcard = ~mask for the mask the engine uses,
\* and subnet k at network + (k - 1) * 2^(32 - cidr), modulo 2^32.
C16_Unsigned ==
    TopBitSet
        => /\ op = "ipToInt"
                  => /\ out.int[31] = 1
                     /\ \A k \in 1..4 : BitsOctet(out.int, k) = OctetsOf(ip)[k]
           /\ op = "calculateIPInfo"
                  => LET i == out.info
                         m == OctetsOf(i.subnetMask)
                         n == And4(OctetsOf(ip), m)
                     IN  /\ \A t \in {i.subnetMask, i.networkAddress,
                                      i.broadcastAddress, i.firstValidHost,
                                      i.lastValidHost, i.wildcardMask} :
                               WellFormed(t)
                         /\ OctetsOf(i.networkAddress) = n
                         /\ OctetsOf(i.broadcastAddress) = Add4(n, Not4(m))
                         /\ OctetsOf(i.firstValidHost) = Succ4(n)
                         /\ Succ4(OctetsOf(i.lastValidHost)) = Add4(n, Not4(m))
                         /\ OctetsOf(i.wildcardMask) = Not4(m)
           /\ (op = "generateSubnets" /\ count \in 2..MaxSubnets)
                  => LET S == out.subnets
                         m == OctetsOf(cidrToSubnetMask(cidr))
                     IN  /\ \A k \in 1..Len(S) :
                               /\ \A t \in {S[k].networkAddress,
                                            S[k].broadcastAddress,
                                            S[k].firstHost, S[k].lastHost} :
                                     WellFormed(t)
                               /\ OctetsOf(S[k].broadcastAddress)
                                      = Add4(OctetsOf(S[k].networkAddress),
                                             LowOnes(32 - S[k].cidr))
                               /\ OctetsOf(S[k].firstHost)
                                      = Succ4(OctetsOf(S[k].networkAddress))
                               /\ Succ4(OctetsOf(S[k].lastHost))
                                      = OctetsOf(S[k].broadcastAddress)
                         /\ Len(S) > 0
                         /\ OctetsOf(S[1].networkAddress) = And4(OctetsOf(ip), m)
                         /\ \A k \in 1..(Len(S) - 1) :
                               OctetsOf(S[k + 1].networkAddress)
                                   = Succ4(OctetsOf(S[k].broadcastAddress))

\* 128.0.0.0/1 is divided in two: 128.0.0.0/2 up to 191.255.255.255 and
\* 192.0.0.0/2 up to 255.255.255.255
W16_Unsigned ==
    /\ TopBitSet /\ op = "generateSubnets" /\ cidr = 1 /\ count = 2
    /\ ip = Quad(128, 0, 0, 0)
    /\ Len(out.subnets) = 2
    /\ out.subnets[1].networkAddress = Quad(128, 0, 0, 0)
    /\ out.subnets[1].broadcastAddress = Quad(191, 255, 255, 255)
    /\ out.subnets[2].networkAddress = Quad(192, 0, 0, 0)
    /\ out.subnets[2].broadcastAddress = Quad(255, 255, 255, 255)

\* C17: for every prefix P in 0..32, calculateIPInfo reports hostBits = 32 - P
\* and subnetBits = P - b, b being the largest of 0, 8, 16, 24 that does not
\* exceed P, so that subnetBits is 0 at P = 8, 16 and 24.  The code takes b
\* from "cidr <= 8 ? 0 : cidr <= 16 ? 8 : cidr <= 24 ? 16 : 24", the largest
\* boundary strictly below P, and reports 8 at P = 8, 16 and 24.
C17_BitCounts ==
    Calculated
        => LET Boundaries == {0, 8, 16, 24}
               b == CHOOSE x \in Boundaries :
                        x <= cidr /\ \A y \in Boundaries : y <= cidr => y <= x
           IN  /\ out.info.hostBits = 32 - cidr
               /\ out.info.subnetBits = cidr - b

\* C19: in every state the user interface reaches by edits of the form,
\* submits, prefix changes in the network tools, clicks on Generate, Ping
\* and Scan subnet, the ping and the scan ending in any of their ways, theme
\* and language changes, each call of calculateIPInfo and of
\* generateSubnets made by the last event has an address text of four
\* decimal octets of value 0..255, whichever path made it.
C19_ValidatedBeforeEngine ==
    \A k \in 1..Len(calls) :
        /\ calls[k].fn \in {"calculateIPInfo", "generateSubnets"}
        /\ WellFormed(calls[k].ip)

\* with 256.1.1.1 in the form, refused at the last submit, a click on Ping
\* calls calculateIPInfo for the address of the displayed result
W19_ValidatedBeforeEngine ==
    /\ formIp = <<"2", "5", "6", ".", "1", ".", "1", ".", "1">>
    /\ ipError = "validation.enterValidIp"
    /\ Len(calls) = 1
    /\ calls[1].by = "handlePing"
    /\ calls[1].fn = "calculateIPInfo"
    /\ calls[1].ip = Quad(200, 1, 1, 1)

\* C20: in SubnetGenerator, after any edits of the count field, the message
\* is empty exactly when parseInt of the field is a number in 2..1024; every
\* call of generateSubnets that a click on Generate makes has the count
\* parseInt reads from the field, in 2..1024; with any other field content
\* no call of generateSubnets is made.
C20_CountGuard ==
    LET n == parseInt(subnetCount)
        inRange == ~n.nan /\ n.n >= 2 /\ n.n <= 1024
    IN  /\ (error = "") <=> inRange
        /\ \A k \in 1..Len(calls) :
               calls[k].fn = "generateSubnets"
                   => /\ calls[k].by = "handleGenerate"
                      /\ inRange
                      /\ calls[k].count = n.n
        /\ ~inRange => \A k \in 1..Len(calls) : calls[k].fn # "generateSubnets"

\* with 1024 in the field and no message, a click on Generate asks for 1024
\* subnets of 200.1.1.1/24 and gets the 64 subnets of prefix 30
W20_CountGuard ==
    /\ subnetCount = <<"1", "0", "2", "4">>
    /\ error = ""
    /\ Len(calls) = 1
    /\ calls[1].by = "handleGenerate"
    /\ calls[1].fn = "generateSubnets"
    /\ calls[1].count = 1024
    /\ calls[1].cidr = 24
    /\ Len(subnets) = 64

\* C21: the calculator supports every prefix from /1 to /32: in every state,
\* for every P in 1..32, the user can choose P in the select of the
\* calculation form, and a displayed result is the result for the prefix
\* currentCidr that was submitted.  The select has the options 1..31 only,
\* so that no state with currentCidr = 32 is reachable.
C21_FullCidrRange ==
    /\ \A P \in 1..32 : ENABLED handleFormCidrChangeTo(P)
    /\ ipResult # <<>> => ipResult[1].cidr = currentCidr

\* C22: for every valid address, baseCidr in 0..32 and subnetCount in
\* 2..1024, every subnet generateSubnets returns lies inside the parent
\* network: its cidr is at least baseCidr, its network address is not below
\* the parent's network address, its broadcast address is not above the
\* parent's broadcast address, and the low 32 - cidr bits of its network
\* address are 0.  For a parent of prefix 31 the subnet emitted has prefix 30.
C22_InsideParent ==
    Generated
        => LET parentNet   == Cleared(OctetsOf(ip), cidr)
               parentBcast == Filled(OctetsOf(ip), cidr)
           IN  \A k \in 1..Len(out.subnets) :
                   LET s     == out.subnets[k]
                       net   == OctetsOf(s.networkAddress)
                       bcast == OctetsOf(s.broadcastAddress)
                   IN  /\ s.cidr >= cidr
                       /\ AtMost4(parentNet, net)
                       /\ AtMost4(bcast, parentBcast)
                       /\ Cleared(net, s.cidr) = net

\* C23: in App, after any calculate, generate, theme and language events, a
\* subnet list that is not empty is what generateSubnets returns for the
\* address and the prefix of the displayed result (with the length of the
\* list as count), and the displayed result is the one of that address and
\* prefix; a submit that calculates sets currentIp and currentCidr to what
\* was submitted, replaces ipResult and empties the list; a click on
\* Generate changes nothing but the list.
C23_ListOfDisplayedNetwork ==
    /\ [](subnets # <<>>
            => /\ ipResult # <<>>
               /\ ipResult[1].cidr = currentCidr
               /\ ipResult[1].binaryIpAddress = ipToBinary(currentIp)
               /\ subnets = generateSubnets(currentIp, currentCidr, Len(subnets)))
    /\ [][(calls' # <<>> /\ calls'[1].by = "handleSubmit")
            => /\ currentIp' = formIp /\ currentCidr' = formCidr
               /\ ipResult' # <<>> /\ ipResult'[1].cidr = formCidr
               /\ subnets' = <<>>]_vars
    /\ [][(calls' # <<>> /\ calls'[1].by = "handleGenerate")
            => /\ UNCHANGED <<ipResult, currentIp, currentCidr>>
               /\ subnets' # <<>>]_vars

\* 200.1.1.1/31 is displayed and the list holds the one subnet generated for
\* it, after a first list was generated for 200.1.1.1/24
W23_ListOfDisplayedNetwork ==
    /\ currentIp = Quad(200, 1, 1, 1) /\ currentCidr = 31
    /\ ipResult # <<>> /\ ipResult[1].cidr = 31
    /\ Len(subnets) = 1
    /\ subnets[1].networkAddress = Quad(200, 1, 1, 0)
    /\ subnets[1].cidr = 30

\* C24: when the effective theme changes while a result is displayed, App
\* runs handleCalculate(currentIp, currentCidr) again: currentIp and
\* currentCidr keep their values, the recomputed ipResult equals the one
\* displayed before in every field, and the subnet list becomes empty; when
\* no result is displayed a theme change leaves ipResult, currentIp,
\* currentCidr and subnets as they are.
C24_ThemeChange ==
    /\ [][(calls' # <<>> /\ calls'[1].by = "themeChange")
            => /\ ipResult # <<>>
               /\ UNCHANGED <<currentIp, currentCidr, ipResult>>
               /\ calls'[1].ip = currentIp /\ calls'[1].cidr = currentCidr
               /\ subnets' = <<>>]_vars
    /\ [][(ipResult = <<>> /\ themeChange)
            => UNCHANGED <<ipResult, currentIp, currentCidr, subnets>>]_vars

\* the theme has changed while 200.1.1.1/31 was displayed: the result is
\* still the one of 200.1.1.1/31 and no subnet is listed
W24_ThemeChange ==
    /\ Len(calls) = 1 /\ calls[1].by = "themeChange"
    /\ currentIp = Quad(200, 1, 1, 1) /\ currentCidr = 31
    /\ ipResult # <<>> /\ ipResult[1].cidr = 31
    /\ ipResult[1].networkAddress = Quad(200, 1, 1, 0)
    /\ subnets = <<>>

\* C25: regenerating with the displayed length reproduces the list: for
\* every valid address, baseCidr in 0..32 and subnetCount in 2..1024, if
\* S = generateSubnets(address, baseCidr, subnetCount) is not empty then
\* generateSubnets(address, baseCidr, |S|) = S, which is what the language
\* change of App displays in place of S.
C25_RegenerateWithLength ==
    (Generated /\ out.subnets # <<>>)
        => generateSubnets(ip, cidr, Len(out.subnets)) = out.subnets

\* 1024 subnets were asked of 10.0.0.5/24 and 64 were returned
W25_RegenerateWithLength ==
    /\ Generated
    /\ ip = Quad(10, 0, 0, 5) /\ cidr = 24 /\ count = MaxSubnets
    /\ Len(out.subnets) = 64
    /\ out.subnets[64].networkAddress = Quad(10, 0, 0, 252)

\* C26: for every valid address, cidr in 0..32 and limit >= 0,
\* generateIpsInSubnet returns exactly min(limit, max(0, 2^(32-cidr) - 2))
\* addresses, consecutive and ascending from network + 1, each strictly
\* between the network address and the broadcast address of (address, cidr).
\* At cidr 0 the broadcast word is -1 as a signed value, the loop test
\* 1 < -1 fails and nothing is returned.
C26_IpsInSubnet ==
    (op = "generateIpsInSubnet" /\ isValidIP(ip) /\ cidr \in 0..32)
        => LET h        == 32 - cidr
               usable   == IF h >= 7 THEN count
                           ELSE IF 2 ^ h - 2 < 0 THEN 0 ELSE 2 ^ h - 2
               expected == IF count < usable THEN count ELSE usable
               net      == Cleared(OctetsOf(ip), cidr)
               bcast    == Filled(OctetsOf(ip), cidr)
               ips      == out.ips
           IN  /\ Len(ips) = expected
               /\ \A k \in 1..Len(ips) :
                      /\ WellFormed(ips[k])
                      /\ OctetsOf(ips[k]) = Add4(net, OctetsOf(Quad(0, 0, 0, k)))
                      /\ Less4(net, OctetsOf(ips[k]))
                      /\ Less4(OctetsOf(ips[k]), bcast)

\* the list ips holds the addresses first, first + 1, ..., last, each once
\* and in ascending order
RangeList(first, last, ips) ==
    /\ Len(ips) >= 1
    /\ ips[1] = QuadOf(OctetsOf(first))
    /\ ips[Len(ips)] = QuadOf(OctetsOf(last))
    /\ \A k \in 1..(Len(ips) - 1) :
           /\ Less4(OctetsOf(ips[k]), OctetsOf(ips[k + 1]))
           /\ ips[k + 1] = QuadOf(Succ4(OctetsOf(ips[k])))

\* C27: a range scan is under way only for a start and an end text that both
\* pass isValidIP and span 1 to 50 addresses, and the list it pings is
\* start, start + 1, ..., end in ascending order; and every click on the
\* range scan button that starts no scan sets ipScanError and leaves
\* scanResults empty.
C27_RangeScan ==
    /\ [](\A w \in 1..Len(scan) :
             scan[w].by = "handleIpRangeScan" =>
                 /\ isValidIP(scan[w].args[1])
                 /\ isValidIP(scan[w].args[2])
                 /\ Len(scan[w].ips) \in 1..50
                 /\ RangeList(scan[w].args[1], scan[w].args[2], scan[w].ips))
    /\ [][(handleIpRangeScan /\ scan' = scan) =>
              (ipScanError' # "" /\ scanResults' = <<>>)]_vars

\* C30: while scanIpRange runs, at most batchSize (5) of its pings are
\* under way, all of them in the current batch, whose other addresses have
\* resolved once; the results pushed so far are those of the batches before,
\* one for each address in the order of the input; the list a finished scan
\* hands over has one result for each input address, result[n].ip =
\* ips[n]; and every scan that has started ends.
C30_Batches ==
    /\ [](\A w \in 1..Len(scan) :
             LET s == scan[w]
                 resolved == { s.got[n].pos : n \in 1..Len(s.got) }
             IN  /\ Cardinality(s.pending) <= 5
                 /\ s.pending # {}
                 /\ s.pending \cup resolved =
                        { j \in 1..Len(s.ips) : j > s.i /\ j <= s.i + 5 }
                 /\ s.pending \cap resolved = {}
                 /\ Cardinality(resolved) = Len(s.got)
                 /\ Len(s.results) = s.i
                 /\ \A n \in 1..Len(s.results) : s.results[n].ip = s.ips[n])
    /\ [][(scan # <<>> /\ scan' = <<>>) =>
              /\ Len(scanResults') = Len(scan[1].ips)
              /\ \A n \in 1..Len(scan[1].ips) :
                     scanResults'[n].ip = scan[1].ips[n]]_vars
    /\ (scan # <<>>) ~> (scan = <<>>)

\* the second batch of a scan of seven addresses is under way after the five
\* results of the first, of which the second is a failure; the ping of the
\* seventh address has resolved, the ping of the sixth has not
W30_Batches ==
    /\ scan # <<>>
    /\ Len(scan[1].ips) = 7
    /\ scan[1].i = 5
    /\ Len(scan[1].results) = 5
    /\ scan[1].results[1].status = "success"
    /\ scan[1].results[2].status = "error"
    /\ scan[1].pending = {6}
    /\ Len(scan[1].got) = 1
    /\ scan[1].got[1].pos = 7

\* the entries of history have falling times: the newest is first
NewestFirst(history) ==
    \A k \in 1..(Len(history) - 1) :
        history[k].timestamp > history[k + 1].timestamp

\* after is before with one entry of time now put in front, and without its
\* oldest entry when before was full
Prepended(before, after, now) ==
    /\ Len(after) = IF Len(before) < 10 THEN Len(before) + 1 ELSE 10
    /\ after[1].timestamp = now
    /\ \A k \in 2..Len(after) : after[k] = before[k - 1]

\* C29: pingHistory and portHistory never hold more than 10 entries and are
\* ordered newest first; the step that ends a ping, with success, with
\* failure or in the catch branch, puts exactly one entry in front of
\* pingHistory, the entry of the result it shows; the step that ends a port
\* check with results puts exactly one entry in front of portHistory; the
\* oldest entry leaves a list of 10; no other step changes the histories.
C29_Histories ==
    /\ [](/\ Len(pingHistory) <= 10
          /\ Len(portHistory) <= 10
          /\ NewestFirst(pingHistory)
          /\ NewestFirst(portHistory))
    /\ [][/\ IF isPinging /\ ~isPinging'
             THEN /\ Prepended(pingHistory, pingHistory', pingsMade')
                  /\ pingHistory'[1].ip = pingResult'[1].ip
                  /\ pingHistory'[1].status = pingResult'[1].status
             ELSE pingHistory' = pingHistory
          /\ IF isCheckingPorts /\ ~isCheckingPorts' /\ portResults' # <<>>
             THEN /\ Prepended(portHistory, portHistory', checksMade')
                  /\ portHistory'[1].ports = Checked(portResults')
             ELSE portHistory' = portHistory]_vars

\* eleven pings and eleven port checks have made their entries: each history
\* holds its 10 newest entries, the first of each is lost; the eleventh ping
\* ended in the catch branch with the history full and its error result is
\* the first entry, the tenth failed, the ninth was answered; the eleventh
\* port check found port 80 closed and port 443 open
W29_Histories ==
    /\ pingsMade = 11
    /\ checksMade = 11
    /\ Len(pingHistory) = 10
    /\ Len(portHistory) = 10
    /\ pingResult = <<[ip |-> currentIp, status |-> "error", timestamp |-> 11]>>
    /\ pingHistory[1] = pingResult[1]
    /\ pingHistory[2].status = "error"
    /\ pingHistory[3].status = "success"
    /\ pingHistory[10].timestamp = 2
    /\ portResults[1].status = "closed"
    /\ portResults[2].status = "open"
    /\ portHistory[1].timestamp = 11
    /\ portHistory[1].ports = <<80, 443>>
    /\ portHistory[10].timestamp = 2

\* C28: each busy flag is set exactly while its operation is awaited, so it
\* is false after every exit of a handler that awaits nothing; while a flag
\* is set no click can start its operation, the button being disabled; at
\* most one ping, one port check and one scan is awaited at a time; and
\* every flag that is set is released, however the awaited call ends.
C28_FlagsReleased ==
    /\ [](/\ isPinging <=> Len(pinging) > 0
          /\ isCheckingPorts <=> Len(checking) > 0
          /\ isScanning <=> Len(scan) > 0)
    /\ [](/\ isPinging => ~ENABLED handlePing(MoreRuns)
          /\ isCheckingPorts => ~ENABLED handleCheckPorts(MoreRuns)
          /\ isScanning => ~ENABLED handleIpRangeScan
          /\ isScanning => ~ENABLED handleScanSubnet)
    /\ [](Len(pinging) <= 1 /\ Len(checking) <= 1 /\ Len(scan) <= 1)
    /\ isPinging ~> ~isPinging
    /\ isCheckingPorts ~> ~isCheckingPorts
    /\ isScanning ~> ~isScanning

\* a subnet scan has ended in the catch branch while the second ping and
\* the second port check of the behaviour are awaited: the scan flag is
\* released, the two others are set
W28_FlagsReleased ==
    /\ ipScanError = "networkTools.ping.errors.subnetError"
    /\ ~isScanning
    /\ isPinging
    /\ pingsMade = 1
    /\ isCheckingPorts
    /\ checksMade = 1

====
